---- MODULE Spec2Model ----
(***************************************************************************)
(* Model of gbbr/hue: bridge discovery (cache, UPnP multicast, remote      *)
(* lookup), pairing and the on-disk cache of the paired bridge.            *)
(*                                                                         *)
(* Go strings are modelled as sequences of characters; each character is a *)
(* one-element TLA+ string.  Two characters stand for classes of bytes:    *)
(* InvalidByte is a byte that is not valid UTF-8 (for example 0xFF) and    *)
(* Replacement is the rune U+FFFD.                                         *)
(***************************************************************************)
EXTENDS Naturals, Sequences, FiniteSets

VARIABLES
    file,        \* the cache file ~/.hue: [exists, data], data the characters in it
    env,         \* what the file system allows: [home, rd, wr]
    bridge,      \* the *Bridge the last Discover call returned: Nil or [ID, IP, username]
    err,         \* the error the last Discover call returned
    pc,          \* position of the running Discover call
    tried,       \* the discovery methods entered by the current Discover call, in order
    res,         \* outcome of each method in the current Discover call
    net,         \* network activity of the current Discover call
    reads,       \* responses read so far by discoverLocal's loop
    remoteResp,  \* the answer the remote lookup endpoint gave to the last GET
    pairResp,    \* the answer the bridge gave to the last pairing POST
    pairErr,     \* what the last pairAs call returned
    cached,      \* the *Bridge the last fromCache call returned
    saved,       \* the bridge whose record pairAs wrote to the file now in place, or Nil
    op,          \* the operation that took the last step
    conn,        \* discoverLocal's socket: the datagrams still to arrive before the deadline
    rbuf,        \* discoverLocal's bufio.Reader: the lines read from the socket and not yet consumed
    arrived,     \* every datagram that reaches the socket before the deadline, in order
    loc,         \* the last tryLocation call: [desc, bid, err]
    arg,         \* the arguments and inputs of the function of a stand-alone specification
    saver,       \* two processes that save at the same time: the position of each in toCache
    wrote,       \* the processes whose write has happened, in the order of the writes
    local,       \* the *Light or *Group that the caller of the lights and groups services holds
    sent,        \* the requests the last operation on a light or group sent, in order
    ret          \* what the function of a stand-alone specification returned

\* The variables that only the stand-alone specifications of single functions
\* move; they are at rest while the program runs.
standalone == <<conn, rbuf, arrived, loc, arg, saver, wrote, local, sent, ret>>

vars == <<file, env, bridge, err, pc, tried, res, net, reads, remoteResp, pairResp, pairErr, cached, saved, op,
          standalone>>

AtRest ==
    /\ conn = <<>>
    /\ rbuf = <<>>
    /\ arrived = <<>>
    /\ loc = [kind |-> "none"]
    /\ arg = [kind |-> "none"]
    /\ saver = <<>>
    /\ wrote = <<>>
    /\ local = [kind |-> "nil"]
    /\ sent = <<>>
    /\ ret = [kind |-> "none"]

(***************************************************************************)
(* Bounds of the model.                                                    *)
(***************************************************************************)
\* responses discoverLocal reads before its deadline
MaxResponses == 2
\* longest string in a field of a bridge handed to toCache directly
MaxStrLen == 2
\* datagrams that reach discoverLocal's socket before its deadline
MaxDatagrams == 3
\* tokens handed to addr and call
MaxTokens == 2
\* elements of the JSON array that answers a call
MaxElements == 2
\* longest JSON array the bridge answers a pairing request with, the arrays of
\* MixedArrays aside
MaxArray == 1

(***************************************************************************)
(* Values.                                                                 *)
(***************************************************************************)
Nil == [kind |-> "nil"]
NoFile == [exists |-> FALSE, data |-> <<>>]
FileOf(data) == [exists |-> TRUE, data |-> data]
ErrNotFound == [kind |-> "no bridge was found"]
Error(what) == [kind |-> what]

InvalidByte == "xFF"
Replacement == "uFFFD"
Quote == "\""
Backslash == "\\"
Slash == "/"

bridgeID(id, ip) == [ID |-> id, IP |-> ip]

NewBridge(bid, username) == [ID |-> bid.ID, IP |-> bid.IP, username |-> username]

IsPaired(b) == b.username # <<>>

\* cachedBridge built without the username.
cachedBridge_NoUsername(b) == [ID |-> b.ID, IP |-> b.IP, Username |-> <<>>]

cachedBridge(b) == [ID |-> b.ID, IP |-> b.IP, Username |-> b.username]

(***************************************************************************)
(* encoding/json, as far as toCache and fromCache use it: an object whose  *)
(* members are strings.                                                    *)
(***************************************************************************)
\* The encoder writes a quote and a backslash escaped, an invalid byte as the
\* escape of U+FFFD, and every other character as it is.
EscapeChar(c) ==
    IF c = Quote THEN <<Backslash, Quote>>
    ELSE IF c = Backslash THEN <<Backslash, Backslash>>
    ELSE IF c = InvalidByte THEN <<Backslash, "u", "f", "f", "f", "d">>
    ELSE <<c>>

RECURSIVE EscapeString(_)
EscapeString(s) ==
    IF s = <<>> THEN <<>> ELSE EscapeChar(Head(s)) \o EscapeString(Tail(s))

JSONString(s) == <<Quote>> \o EscapeString(s) \o <<Quote>>

Marshal(cb) ==
    <<"{">> \o JSONString(<<"I", "D">>) \o <<":">> \o JSONString(cb.ID)
    \o <<",">> \o JSONString(<<"I", "P">>) \o <<":">> \o JSONString(cb.IP)
    \o <<",">> \o JSONString(<<"U", "s", "e", "r", "n", "a", "m", "e">>)
    \o <<":">> \o JSONString(cb.Username) \o <<"}">>

SyntaxError == [ok |-> FALSE]

\* Decodes the string literal whose opening quote is at s[i - 1]: the decoded
\* string and the position after the closing quote.
RECURSIVE ScanString(_, _, _)
ScanString(s, i, acc) ==
    IF i > Len(s) THEN SyntaxError
    ELSE IF s[i] = Quote THEN [ok |-> TRUE, val |-> acc, next |-> i + 1]
    ELSE IF s[i] = Backslash THEN
        IF i + 1 > Len(s) THEN SyntaxError
        ELSE IF s[i + 1] \in {Quote, Backslash}
            THEN ScanString(s, i + 2, Append(acc, s[i + 1]))
        ELSE IF i + 5 <= Len(s) /\ SubSeq(s, i + 1, i + 5) = <<"u", "f", "f", "f", "d">>
            THEN ScanString(s, i + 6, Append(acc, Replacement))
        ELSE SyntaxError
    ELSE IF s[i] = InvalidByte THEN ScanString(s, i + 1, Append(acc, Replacement))
    ELSE ScanString(s, i + 1, Append(acc, s[i]))

StringAt(s, i) ==
    IF i <= Len(s) /\ s[i] = Quote THEN ScanString(s, i + 1, <<>>) ELSE SyntaxError

\* Stores value v under key k; a key that is no field of cachedBridge is ignored.
SetField(cb, k, v) ==
    IF k = <<"I", "D">> THEN [cb EXCEPT !.ID = v]
    ELSE IF k = <<"I", "P">> THEN [cb EXCEPT !.IP = v]
    ELSE IF k = <<"U", "s", "e", "r", "n", "a", "m", "e">> THEN [cb EXCEPT !.Username = v]
    ELSE cb

\* The members of an object from position i, the first member's key, on.
RECURSIVE ScanMembers(_, _, _)
ScanMembers(s, i, cb) ==
    LET k == StringAt(s, i) IN
    IF ~k.ok \/ k.next > Len(s) \/ s[k.next] # ":" THEN SyntaxError
    ELSE LET v == StringAt(s, k.next + 1) IN
        IF ~v.ok \/ v.next > Len(s) THEN SyntaxError
        ELSE IF s[v.next] = "," THEN ScanMembers(s, v.next + 1, SetField(cb, k.val, v.val))
        ELSE IF s[v.next] = "}" /\ v.next = Len(s)
            THEN [ok |-> TRUE, val |-> SetField(cb, k.val, v.val)]
        ELSE SyntaxError

\* json.Unmarshal(data, &b) with b a zero cachedBridge.
Unmarshal(s) ==
    LET zero == [ID |-> <<>>, IP |-> <<>>, Username |-> <<>>] IN
    IF Len(s) < 2 \/ s[1] # "{" THEN SyntaxError
    ELSE IF s = <<"{", "}">> THEN [ok |-> TRUE, val |-> zero]
    ELSE ScanMembers(s, 2, zero)

(***************************************************************************)
(* The cache store.                                                        *)
(***************************************************************************)
\* ioutil.WriteFile: the open fails and the file stays as it was, or the file
\* is truncated and the write fails, or all of data is written.
WriteFile(wr, f, data) ==
    IF wr = "denied" THEN [f |-> f, err |-> Error("open")]
    ELSE IF wr = "short" THEN [f |-> FileOf(<<>>), err |-> Error("write")]
    ELSE [f |-> FileOf(data), err |-> Nil]

\* The cache file after toCache(b).  toCache returns nothing.
toCache(e, f, b) ==
    IF ~e.home THEN f
    ELSE WriteFile(e.wr, f, Marshal(cachedBridge(b))).f

\* fromCache with the return after the failed Unmarshal lost: the zero
\* cachedBridge is returned.
fromCache_NoReturnOnBadJSON(e, f) ==
    IF ~e.home THEN Nil
    ELSE IF ~f.exists THEN Nil
    ELSE IF ~e.rd THEN Nil
    ELSE LET u == Unmarshal(f.data) IN
        IF ~u.ok THEN NewBridge(bridgeID(<<>>, <<>>), <<>>)
        ELSE NewBridge(bridgeID(u.val.ID, u.val.IP), u.val.Username)

fromCache(e, f) ==
    IF ~e.home THEN Nil
    ELSE IF ~f.exists THEN Nil
    ELSE IF ~e.rd THEN Nil
    ELSE LET u == Unmarshal(f.data) IN
        IF ~u.ok THEN Nil
        ELSE NewBridge(bridgeID(u.val.ID, u.val.IP), u.val.Username)

(***************************************************************************)
(* What the network can answer.                                            *)
(***************************************************************************)
IDs == {<<"a">>, <<"b">>}

\* URLBase elements of a device description: absent, and with no, one and two
\* trailing slashes.
URLBases == {<<>>, <<"h">>, <<"h", Slash>>, <<"h", Slash, Slash>>}

\* internalipaddress members of the remote lookup's answer.
RemoteIPs == {<<"i">>, <<"i", Slash>>}

ProductName == <<"Philips hue">>

\* modelDescription and modelName elements; each word is one element.
ModelStrings == {<<>>, <<"Philips hue", " bridge 2012">>, <<"Remote controller carpet">>}

\* What a GET of a Location yields: no response, a body that is no XML, or a
\* description.
Descriptions ==
    {[kind |-> "fetch error"], [kind |-> "bad xml"]}
    \cup [kind : {"xml"}, URL : URLBases, Description : ModelStrings,
          Name : ModelStrings, ID : IDs]

\* What one turn of discoverLocal's loop reads from the socket.
LocalResponses ==
    {[kind |-> "deadline"], [kind |-> "no headers"], [kind |-> "no location"]}
    \cup [kind : {"location"}, desc : Descriptions]

RemoteArrays ==
    {<<>>}
    \cup {<<bridgeID(id, ip)>> : id \in IDs, ip \in RemoteIPs}
    \cup {<<bridgeID(<<"a">>, ip), bridgeID(<<"b">>, <<"i">>)>> : ip \in RemoteIPs}

\* What the GET of remoteAddr yields: an error and no response, an error with
\* a response (the redirect policy gave up), a body that is no JSON array, or
\* an array of bridgeIDs.
RemoteResponses ==
    {[kind |-> "network error"], [kind |-> "redirect error"], [kind |-> "bad json"]}
    \cup [kind : {"json"}, arr : RemoteArrays]

(***************************************************************************)
(* Discovery.                                                              *)
(***************************************************************************)
Contains(s, sub) ==
    \E i \in 1..(Len(s) + 1) :
        i + Len(sub) - 1 <= Len(s) /\ SubSeq(s, i, i + Len(sub) - 1) = sub

NoBridgeID == bridgeID(<<>>, <<>>)

\* tryLocation with the test of modelName lost.
tryLocation_DescriptionOnly(d) ==
    IF d.kind = "fetch error" THEN [bid |-> NoBridgeID, err |-> Error("get")]
    ELSE IF d.kind = "bad xml" THEN [bid |-> NoBridgeID, err |-> Error("xml")]
    ELSE IF d.URL = <<>> \/ ~Contains(d.Description, ProductName)
        THEN [bid |-> NoBridgeID, err |-> ErrNotFound]
    ELSE [bid |-> bridgeID(d.ID, d.URL), err |-> Nil]

tryLocation(d) ==
    IF d.kind = "fetch error" THEN [bid |-> NoBridgeID, err |-> Error("get")]
    ELSE IF d.kind = "bad xml" THEN [bid |-> NoBridgeID, err |-> Error("xml")]
    ELSE IF d.URL = <<>>
            \/ ~(Contains(d.Description, ProductName) \/ Contains(d.Name, ProductName))
        THEN [bid |-> NoBridgeID, err |-> ErrNotFound]
    ELSE [bid |-> bridgeID(d.ID, d.URL), err |-> Nil]

\* One turn of discoverLocal's loop on what it read: leave the loop, go on
\* to the next response, or return.
localTurn(r) ==
    IF r.kind = "deadline" THEN [next |-> "break"]
    ELSE IF r.kind = "no headers" THEN [next |-> "continue"]
    ELSE IF r.kind = "no location" THEN [next |-> "continue"]
    ELSE LET t == tryLocation(r.desc) IN
        IF t.err # Nil THEN [next |-> "continue"]
        ELSE [next |-> "return", bid |-> t.bid, err |-> t.err]

\* fmt.Sprintf("http://%s/", ip)
Sanitize(ip) == <<"h", "t", "t", "p", ":", Slash, Slash>> \o ip \o <<Slash>>

\* discoverRemote taking the last element of the array.
discoverRemote_LastElement(r) ==
    IF r.kind = "network error" THEN [panic |-> TRUE, bid |-> NoBridgeID, err |-> Nil]
    ELSE IF r.kind = "redirect error"
        THEN [panic |-> FALSE, bid |-> NoBridgeID, err |-> Error("get")]
    ELSE IF r.kind = "bad json"
        THEN [panic |-> FALSE, bid |-> NoBridgeID, err |-> Error("json")]
    ELSE IF Len(r.arr) = 0
        THEN [panic |-> FALSE, bid |-> NoBridgeID, err |-> ErrNotFound]
    ELSE [panic |-> FALSE,
          bid |-> bridgeID(r.arr[Len(r.arr)].ID, Sanitize(r.arr[Len(r.arr)].IP)), err |-> Nil]

\* discoverRemote on the answer r.  With no response, resp is nil and the
\* deferred resp.Body.Close() dereferences it before err is looked at.
discoverRemote(r) ==
    IF r.kind = "network error" THEN [panic |-> TRUE, bid |-> NoBridgeID, err |-> Nil]
    ELSE IF r.kind = "redirect error"
        THEN [panic |-> FALSE, bid |-> NoBridgeID, err |-> Error("get")]
    ELSE IF r.kind = "bad json"
        THEN [panic |-> FALSE, bid |-> NoBridgeID, err |-> Error("json")]
    ELSE IF Len(r.arr) = 0
        THEN [panic |-> FALSE, bid |-> NoBridgeID, err |-> ErrNotFound]
    ELSE [panic |-> FALSE, bid |-> bridgeID(r.arr[1].ID, Sanitize(r.arr[1].IP)), err |-> Nil]

\* afterCache without the short circuit: discovery runs whatever the cache gave.
afterCache_NoShortCircuit(b) == "local"

\* Where Discover goes after fromCache returned b.
afterCache(b) == IF b # Nil THEN "done" ELSE "local"

\* afterLocal with the error test lost: the remote lookup always runs.
afterLocal_AlwaysRemote(e) == "remote"

\* Where discover goes after discoverLocal returned error e.
afterLocal(e) == IF e # Nil THEN "remote" ELSE "done"

\* What discover returns after discoverRemote returned r.
afterRemote(r) == IF r.err # Nil THEN [bid |-> r.bid, err |-> ErrNotFound] ELSE [bid |-> r.bid, err |-> r.err]

\* What Discover returns after discover returned d.
DiscoverReturn(d) ==
    IF d.err # Nil THEN [b |-> Nil, err |-> d.err]
    ELSE [b |-> NewBridge(d.bid, <<>>), err |-> d.err]

NoNet == [udp |-> 0, sent |-> 0, http |-> 0]
NoRes == [cache |-> "none", local |-> "none", remote |-> "none"]
NoResp == [kind |-> "none"]

\* Discover is called: the cache lookup.  The call follows a call that
\* returned, or is the first of a run of the program, also of the run that
\* follows one ended by a panic.
DiscoverCall ==
    /\ pc \in {"idle", "done", "panic"}
    /\ LET b == fromCache(env, file) IN
        /\ pc' = afterCache(b)
        /\ bridge' = b
        /\ cached' = b
        /\ res' = [NoRes EXCEPT !.cache = IF b # Nil THEN "ok" ELSE "fail"]
    /\ err' = Nil
    /\ tried' = <<"cache">>
    /\ net' = NoNet
    /\ reads' = 0
    /\ remoteResp' = NoResp
    /\ pairResp' = NoResp
    /\ pairErr' = Nil
    /\ op' = "Discover"
    /\ UNCHANGED standalone
    /\ UNCHANGED <<file, env, saved>>

\* discoverLocal is entered: the socket is opened and the search is sent.
LocalListen ==
    /\ pc = "local"
    /\ tried' = Append(tried, "local")
    /\ \E ok \in BOOLEAN :
        IF ok
        THEN /\ net' = [net EXCEPT !.udp = 1, !.sent = 1]
             /\ pc' = "recv"
             /\ res' = res
        ELSE /\ net' = net
             /\ pc' = afterLocal(Error("listen"))
             /\ res' = [res EXCEPT !.local = "fail"]
    /\ op' = "discoverLocal"
    /\ UNCHANGED standalone
    /\ UNCHANGED <<file, env, bridge, err, reads, remoteResp, pairResp, pairErr, cached, saved>>

\* One turn of discoverLocal's loop.
LocalRecv ==
    /\ pc = "recv"
    /\ \E r \in LocalResponses :
        /\ r.kind # "deadline" => reads < MaxResponses
        /\ reads' = IF r.kind = "deadline" THEN reads ELSE reads + 1
        /\ net' = IF r.kind = "location" THEN [net EXCEPT !.http = @ + 1] ELSE net
        /\ LET t == localTurn(r) IN
            IF t.next = "continue"
            THEN /\ pc' = "recv"
                 /\ UNCHANGED <<bridge, err, res>>
            ELSE IF t.next = "break"
            THEN /\ pc' = afterLocal(ErrNotFound)
                 /\ res' = [res EXCEPT !.local = "fail"]
                 /\ UNCHANGED <<bridge, err>>
            ELSE /\ pc' = afterLocal(t.err)
                 /\ res' = [res EXCEPT !.local = "ok"]
                 /\ bridge' = DiscoverReturn(t).b
                 /\ err' = DiscoverReturn(t).err
    /\ op' = "discoverLocal"
    /\ UNCHANGED standalone
    /\ UNCHANGED <<file, env, tried, remoteResp, pairResp, pairErr, cached, saved>>

\* discoverRemote, and the return of discover and Discover after it.
RemoteLookup ==
    /\ pc = "remote"
    /\ tried' = Append(tried, "remote")
    /\ net' = [net EXCEPT !.http = @ + 1]
    /\ \E r \in RemoteResponses :
        /\ remoteResp' = r
        /\ LET rr == discoverRemote(r) IN
            IF rr.panic
            THEN /\ pc' = "panic"
                 /\ res' = [res EXCEPT !.remote = "fail"]
                 /\ UNCHANGED <<bridge, err>>
            ELSE /\ pc' = "done"
                 /\ res' = [res EXCEPT !.remote = IF rr.err # Nil THEN "fail" ELSE "ok"]
                 /\ bridge' = DiscoverReturn(afterRemote(rr)).b
                 /\ err' = DiscoverReturn(afterRemote(rr)).err
    /\ op' = "discoverRemote"
    /\ UNCHANGED standalone
    /\ UNCHANGED <<file, env, reads, pairResp, pairErr, cached, saved>>

(***************************************************************************)
(* Pairing.                                                                *)
(***************************************************************************)
Usernames == {<<"u">>, <<"v", Quote>>}

\* Elements of the array the bridge answers with: "type" of the element's
\* error object (0: none) and "username" of its success object (empty: none).
\* An element with an error object, and one without: the success object
\* holds the username u, or there is none (u empty).
ErrorElement(code, address, description) ==
    [code |-> code, address |-> address, description |-> description, username |-> <<>>]

SuccessElement(u) == [code |-> 0, address |-> <<>>, description |-> <<>>, username |-> u]

\* The answer to a pairing request while the link button is not pressed.
LinkButton == ErrorElement(101, <<Slash>>, <<"link button not pressed">>)

PairElements ==
    {SuccessElement(<<>>), LinkButton} \cup {SuccessElement(u) : u \in Usernames}

RECURSIVE SeqsUpTo(_, _)
SeqsUpTo(S, n) ==
    IF n = 0 THEN {<<>>}
    ELSE LET shorter == SeqsUpTo(S, n - 1) IN
        shorter \cup {Append(q, x) : q \in shorter, x \in S}

\* Arrays whose first element decides differently from their second: no
\* username before a username, a username before an error, an error before a
\* username.
MixedArrays ==
    {<<SuccessElement(<<>>), SuccessElement(<<"u">>)>>,
     <<SuccessElement(<<"u">>), LinkButton>>,
     <<LinkButton, SuccessElement(<<"u">>)>>}

\* What the POST to <address>api yields: no response, a body that is no
\* JSON, a JSON object, or a JSON array.
PairResponses ==
    {[kind |-> "transport error"], [kind |-> "not json"], [kind |-> "object"]}
    \cup [kind : {"array"}, arr : SeqsUpTo(PairElements, MaxArray) \cup MixedArrays]

\* The APIError decoded from the error object of element e.
APIError(e) == [kind |-> "APIError", Code |-> e.code, URL |-> e.address, Msg |-> e.description]

\* FirstError taking the last element that carries an error.
FirstError_Last(arr) ==
    IF \E i \in 1..Len(arr) : arr[i].code # 0
    THEN CHOOSE i \in 1..Len(arr) :
            arr[i].code # 0 /\ \A j \in (i + 1)..Len(arr) : arr[j].code = 0
    ELSE 0

\* The first element of arr that carries an error, 0 if none does.
FirstError(arr) ==
    IF \E i \in 1..Len(arr) : arr[i].code # 0
    THEN CHOOSE i \in 1..Len(arr) :
            arr[i].code # 0 /\ \A j \in 1..(i - 1) : arr[j].code = 0
    ELSE 0

\* call with the UnmarshalTypeError returned as every other error is: only
\* an array is a good answer.
call_TypeErrorReturned(r) ==
    IF r.kind = "transport error" THEN [body |-> NoResp, err |-> Error("transport")]
    ELSE IF r.kind = "not json" THEN [body |-> NoResp, err |-> Error("syntax")]
    ELSE IF r.kind = "object" THEN [body |-> NoResp, err |-> Error("type")]
    ELSE IF FirstError(r.arr) # 0
        THEN [body |-> NoResp, err |-> APIError(r.arr[FirstError(r.arr)])]
    ELSE [body |-> r, err |-> Nil]

\* Bridge.call on the answer r: the body and the error it returns.
call(r) ==
    IF r.kind = "transport error" THEN [body |-> NoResp, err |-> Error("transport")]
    ELSE IF r.kind = "not json" THEN [body |-> NoResp, err |-> Error("syntax")]
    ELSE IF r.kind = "object" THEN [body |-> r, err |-> Nil]
    ELSE IF FirstError(r.arr) # 0
        THEN [body |-> NoResp, err |-> APIError(r.arr[FirstError(r.arr)])]
    ELSE [body |-> r, err |-> Nil]

\* pairAs without the call of toCache.
pairAs_NoCache(b, hostOK, r, e, f) ==
    IF ~hostOK THEN [b |-> b, f |-> f, err |-> Error("hostname")]
    ELSE LET c == call(r) IN
        IF c.err # Nil THEN [b |-> b, f |-> f, err |-> c.err]
        ELSE IF c.body.kind # "array" THEN [b |-> b, f |-> f, err |-> Error("type")]
        ELSE IF Len(c.body.arr) = 0 \/ c.body.arr[1].username = <<>>
            THEN [b |-> b, f |-> f, err |-> Error("bad response")]
        ELSE [b |-> [b EXCEPT !.username = c.body.arr[1].username], f |-> f, err |-> Nil]

\* pairAs with the test of the username lost: only the empty array is a bad
\* response.
pairAs_NoUsernameCheck(b, hostOK, r, e, f) ==
    IF ~hostOK THEN [b |-> b, f |-> f, err |-> Error("hostname")]
    ELSE LET c == call(r) IN
        IF c.err # Nil THEN [b |-> b, f |-> f, err |-> c.err]
        ELSE IF c.body.kind # "array" THEN [b |-> b, f |-> f, err |-> Error("type")]
        ELSE IF Len(c.body.arr) = 0
            THEN [b |-> b, f |-> f, err |-> Error("bad response")]
        ELSE LET nb == [b EXCEPT !.username = c.body.arr[1].username] IN
            [b |-> nb, f |-> toCache(e, f, nb), err |-> Nil]

\* pairAs returning the error of a failed save.
pairAs_SaveErrorReturned(b, hostOK, r, e, f) ==
    IF ~hostOK THEN [b |-> b, f |-> f, err |-> Error("hostname")]
    ELSE LET c == call(r) IN
        IF c.err # Nil THEN [b |-> b, f |-> f, err |-> c.err]
        ELSE IF c.body.kind # "array" THEN [b |-> b, f |-> f, err |-> Error("type")]
        ELSE IF Len(c.body.arr) = 0 \/ c.body.arr[1].username = <<>>
            THEN [b |-> b, f |-> f, err |-> Error("bad response")]
        ELSE LET nb == [b EXCEPT !.username = c.body.arr[1].username] IN
            [b |-> nb, f |-> toCache(e, f, nb),
             err |-> IF ~e.home \/ e.wr # "ok" THEN Error("could not cache") ELSE Nil]

\* pairAs saving the bridge also when the answer carries no username.
pairAs_CacheOnFailure(b, hostOK, r, e, f) ==
    IF ~hostOK THEN [b |-> b, f |-> f, err |-> Error("hostname")]
    ELSE LET c == call(r) IN
        IF c.err # Nil THEN [b |-> b, f |-> f, err |-> c.err]
        ELSE IF c.body.kind # "array" THEN [b |-> b, f |-> f, err |-> Error("type")]
        ELSE IF Len(c.body.arr) = 0 \/ c.body.arr[1].username = <<>>
            THEN [b |-> b, f |-> toCache(e, f, b), err |-> Error("bad response")]
        ELSE LET nb == [b EXCEPT !.username = c.body.arr[1].username] IN
            [b |-> nb, f |-> toCache(e, f, nb), err |-> Nil]

\* pairAs dropping the username of the bridge when the pairing fails.
pairAs_ForgetsOnFailure(b, hostOK, r, e, f) ==
    IF ~hostOK THEN [b |-> b, f |-> f, err |-> Error("hostname")]
    ELSE LET c == call(r) IN
        IF c.err # Nil THEN [b |-> [b EXCEPT !.username = <<>>], f |-> f, err |-> c.err]
        ELSE IF c.body.kind # "array" THEN [b |-> b, f |-> f, err |-> Error("type")]
        ELSE IF Len(c.body.arr) = 0 \/ c.body.arr[1].username = <<>>
            THEN [b |-> [b EXCEPT !.username = <<>>], f |-> f, err |-> Error("bad response")]
        ELSE LET nb == [b EXCEPT !.username = c.body.arr[1].username] IN
            [b |-> nb, f |-> toCache(e, f, nb), err |-> Nil]

\* pairAs on bridge b with the cache file f: the bridge and the file after
\* it, and the error it returns.  hostOK: os.Hostname() succeeds.
pairAs(b, hostOK, r, e, f) ==
    IF ~hostOK THEN [b |-> b, f |-> f, err |-> Error("hostname")]
    ELSE LET c == call(r) IN
        IF c.err # Nil THEN [b |-> b, f |-> f, err |-> c.err]
        ELSE IF c.body.kind # "array" THEN [b |-> b, f |-> f, err |-> Error("type")]
        ELSE IF Len(c.body.arr) = 0 \/ c.body.arr[1].username = <<>>
            THEN [b |-> b, f |-> f, err |-> Error("bad response")]
        ELSE LET nb == [b EXCEPT !.username = c.body.arr[1].username] IN
            [b |-> nb, f |-> toCache(e, f, nb), err |-> Nil]

\* What the bridge can answer when the host name is known; without it no
\* request is sent.
PairInputs ==
    {[hostOK |-> FALSE, r |-> NoResp]} \cup [hostOK : {TRUE}, r : PairResponses]

\* Pair or PairAs on the bridge Discover returned.  The record of the
\* Discover call's activity ends with the next operation.
PairAs ==
    /\ pc \in {"idle", "done"}
    /\ bridge # Nil
    /\ \E in \in PairInputs :
        LET o == pairAs(bridge, in.hostOK, in.r, env, file) IN
        /\ bridge' = o.b
        /\ file' = o.f
        /\ pairErr' = o.err
        /\ pairResp' = in.r
        /\ saved' = IF o.err = Nil /\ o.f = FileOf(Marshal(cachedBridge(o.b))) THEN o.b
                     ELSE IF o.f # file THEN Nil
                     ELSE saved
    /\ pc' = "idle"
    /\ tried' = <<>>
    /\ res' = NoRes
    /\ net' = NoNet
    /\ reads' = 0
    /\ remoteResp' = NoResp
    /\ cached' = Nil
    /\ op' = "pairAs"
    /\ UNCHANGED standalone
    /\ UNCHANGED <<env, err>>

\* The operator resets the cache by removing the file, between two calls.
RemoveCacheFile ==
    /\ pc \in {"idle", "done", "panic"}
    /\ file.exists
    /\ file' = NoFile
    /\ saved' = Nil
    /\ op' = "remove"
    /\ UNCHANGED standalone
    /\ UNCHANGED <<env, bridge, err, pc, tried, res, net, reads, remoteResp, pairResp,
                   pairErr, cached>>

(***************************************************************************)
(* The program: Discover, then pairing, any number of times.               *)
(***************************************************************************)
\* home: homedir.Dir() succeeds; rd: the file can be read; wr: what
\* ioutil.WriteFile does.
Envs ==
    {[home |-> FALSE, rd |-> TRUE, wr |-> "ok"]}
    \cup [home : {TRUE}, rd : BOOLEAN, wr : {"ok", "denied", "short"}]

\* The cache file before the program runs: none, an empty file, an empty
\* object, or the record of an earlier pairing.
InitFiles ==
    {NoFile, FileOf(<<>>), FileOf(<<"{", "}">>),
     FileOf(Marshal([ID |-> <<"a">>, IP |-> <<"h", Slash>>, Username |-> <<"u">>]))}

Init ==
    /\ file \in InitFiles
    /\ env \in Envs
    /\ bridge = Nil
    /\ err = Nil
    /\ pc = "idle"
    /\ tried = <<>>
    /\ res = NoRes
    /\ net = NoNet
    /\ reads = 0
    /\ remoteResp = NoResp
    /\ pairResp = NoResp
    /\ pairErr = Nil
    /\ cached = Nil
    /\ saved = Nil
    /\ op = "none"
    /\ AtRest

Next ==
    \/ DiscoverCall
    \/ LocalListen
    \/ LocalRecv
    \/ RemoteLookup
    \/ PairAs
    \/ RemoveCacheFile

Spec == Init /\ [][Next]_vars

(***************************************************************************)
(* toCache followed by fromCache, on any bridge: TestToCacheFromCache with *)
(* the bridge drawn from bounded strings.                                  *)
(***************************************************************************)
CacheChars == {"a", Quote, Backslash, InvalidByte}

\* The three fields are encoded by the same code; the address is kept to one
\* character.
CacheBridges ==
    [ID : SeqsUpTo(CacheChars, MaxStrLen), IP : SeqsUpTo(CacheChars, 1),
     username : SeqsUpTo(CacheChars, MaxStrLen)]

CacheInit ==
    /\ bridge \in CacheBridges
    /\ file \in {NoFile, FileOf(Marshal([ID |-> <<"a">>, IP |-> <<"h", Slash>>,
                                         Username |-> <<"u", "u", "u", "u">>]))}
    /\ env = [home |-> TRUE, rd |-> TRUE, wr |-> "ok"]
    /\ err = Nil
    /\ pc = "idle"
    /\ tried = <<>>
    /\ res = NoRes
    /\ net = NoNet
    /\ reads = 0
    /\ remoteResp = NoResp
    /\ pairResp = NoResp
    /\ pairErr = Nil
    /\ cached = Nil
    /\ saved = Nil
    /\ op = "none"
    /\ AtRest

CacheSave ==
    /\ op = "none"
    /\ file' = toCache(env, file, bridge)
    /\ op' = "toCache"
    /\ UNCHANGED standalone
    /\ UNCHANGED <<env, bridge, err, pc, tried, res, net, reads, remoteResp, pairResp,
                   pairErr, cached, saved>>

CacheLoad ==
    /\ op = "toCache"
    /\ cached' = fromCache(env, file)
    /\ op' = "fromCache"
    /\ UNCHANGED standalone
    /\ UNCHANGED <<file, env, bridge, err, pc, tried, res, net, reads, remoteResp,
                   pairResp, pairErr, saved>>

CacheNext ==
    \/ CacheSave
    \/ CacheLoad

SpecCache == CacheInit /\ [][CacheNext]_vars

(***************************************************************************)
(* discoverLocal on its own: TestDiscoverLocal with the replies drawn from *)
(* bounded sets.  The socket is read through a bufio.Reader, so that the   *)
(* datagrams form one stream of lines; a read waits for the next datagram  *)
(* and fails when the deadline comes first.                                *)
(***************************************************************************)
StatusLine == [kind |-> "status"]
BlankLine == [kind |-> "blank"]
OtherHeader == [kind |-> "header", key |-> "Some-Header"]
LocationHeader(d) == [kind |-> "header", key |-> "Location", desc |-> d]

\* A server that accepts the GET of the description and never answers.
NoAnswer == [kind |-> "no answer"]

BridgeDescription(id) ==
    [kind |-> "xml", URL |-> <<"h", Slash>>, Description |-> <<"Philips hue", " bridge 2012">>,
     Name |-> <<>>, ID |-> id]

CarpetDescription ==
    [kind |-> "xml", URL |-> <<"h", Slash>>, Description |-> <<"Remote controller carpet">>,
     Name |-> <<>>, ID |-> <<"a">>]

FewDescriptions == {BridgeDescription(id) : id \in IDs} \cup {CarpetDescription}

\* The replies of the test suite: nothing, a status line alone, headers that
\* no blank line ends, headers without Location, and Location as the first
\* header or after another one.
Replies ==
    {<<>>, <<StatusLine>>, <<StatusLine, OtherHeader>>,
     <<StatusLine, OtherHeader, BlankLine>>}
    \cup {<<StatusLine, LocationHeader(d), BlankLine>> : d \in FewDescriptions \cup {NoAnswer}}
    \cup {<<StatusLine, OtherHeader, LocationHeader(d), BlankLine>> : d \in FewDescriptions}

\* The datagrams that reach the socket before the deadline: one reply with
\* any description, or up to MaxDatagrams replies.
Arrivals ==
    {<<<<StatusLine, LocationHeader(d), BlankLine>>>> : d \in Descriptions}
    \cup SeqsUpTo(Replies, MaxDatagrams)

\* The reader's next line: out of the buffer, or out of the next datagram
\* that holds one; none when the deadline comes first.
RECURSIVE ReadLine(_, _)
ReadLine(buf, cn) ==
    IF buf # <<>> THEN [ok |-> TRUE, line |-> Head(buf), buf |-> Tail(buf), conn |-> cn]
    ELSE IF cn # <<>> THEN ReadLine(Head(cn), Tail(cn))
    ELSE [ok |-> FALSE, buf |-> <<>>, conn |-> <<>>]

\* textproto's ReadMIMEHeader: header lines up to a blank line; a line
\* without a colon is an error, and so is the end of the input.  h is the
\* list of the Location values met so far.
RECURSIVE ReadMIMEHeader(_, _, _)
ReadMIMEHeader(h, buf, cn) ==
    LET l == ReadLine(buf, cn) IN
        IF ~l.ok THEN [h |-> h, err |-> Error("timeout"), buf |-> l.buf, conn |-> l.conn]
        ELSE IF l.line.kind = "blank"
            THEN [h |-> h, err |-> Nil, buf |-> l.buf, conn |-> l.conn]
        ELSE IF l.line.kind = "status"
            THEN [h |-> h, err |-> Error("malformed MIME header line"),
                  buf |-> l.buf, conn |-> l.conn]
        ELSE ReadMIMEHeader(IF l.line.key = "Location" THEN Append(h, l.line.desc) ELSE h,
                            l.buf, l.conn)

NoCall == [kind |-> "none"]
LocationCall(d) == [kind |-> "call", desc |-> d, bid |-> tryLocation(d).bid, err |-> tryLocation(d).err]

\* One turn of discoverLocal's loop on the reader: what the turn leaves in
\* the reader, the tryLocation call it made, and how the loop goes on.
loopTurn(buf, cn) ==
    LET s == ReadLine(buf, cn) IN
        IF ~s.ok
        THEN [next |-> "break", buf |-> s.buf, conn |-> s.conn, loc |-> NoCall]
        ELSE LET m == ReadMIMEHeader(<<>>, s.buf, s.conn) IN
            IF m.err # Nil
            THEN [next |-> "continue", buf |-> m.buf, conn |-> m.conn, loc |-> NoCall]
            ELSE IF m.h = <<>>
            THEN [next |-> "continue", buf |-> m.buf, conn |-> m.conn, loc |-> NoCall]
            ELSE IF m.h[1] = NoAnswer
            THEN [next |-> "blocked", buf |-> m.buf, conn |-> m.conn, loc |-> NoCall]
            ELSE [next |-> IF tryLocation(m.h[1]).err # Nil THEN "continue" ELSE "return",
                  buf |-> m.buf, conn |-> m.conn, loc |-> LocationCall(m.h[1])]

Return(bid, e) == [kind |-> "return", bid |-> bid, err |-> e]

LocalInit ==
    /\ arrived \in Arrivals
    /\ conn = <<>>
    /\ rbuf = <<>>
    /\ loc = NoCall
    /\ arg = [kind |-> "none"]
    /\ saver = <<>>
    /\ wrote = <<>>
    /\ local = [kind |-> "nil"]
    /\ sent = <<>>
    /\ ret = [kind |-> "none"]
    /\ file = NoFile
    /\ env = [home |-> TRUE, rd |-> TRUE, wr |-> "ok"]
    /\ bridge = Nil
    /\ err = Nil
    /\ pc = "local"
    /\ tried = <<>>
    /\ res = NoRes
    /\ net = NoNet
    /\ reads = 0
    /\ remoteResp = NoResp
    /\ pairResp = NoResp
    /\ pairErr = Nil
    /\ cached = Nil
    /\ saved = Nil
    /\ op = "none"

\* discoverLocal up to its loop: the socket, the search, the deadline.
LocalOpen ==
    /\ pc = "local"
    /\ \E ok \in BOOLEAN :
        IF ok
        THEN /\ net' = [net EXCEPT !.udp = 1, !.sent = 1]
             /\ conn' = arrived
             /\ pc' = "recv"
             /\ ret' = ret
        ELSE /\ net' = net
             /\ conn' = conn
             /\ pc' = "done"
             /\ ret' = Return(NoBridgeID, Error("listen"))
    /\ op' = "ListenUDP"
    /\ UNCHANGED <<local, sent>>
    /\ UNCHANGED <<file, env, bridge, err, tried, res, reads, remoteResp, pairResp, pairErr,
                   cached, saved, rbuf, arrived, loc, arg, saver, wrote>>

\* One turn of the loop, and the return that follows the turn that ends it.
LocalTurn ==
    /\ pc = "recv"
    /\ LET t == loopTurn(rbuf, conn) IN
        /\ rbuf' = t.buf
        /\ conn' = t.conn
        /\ loc' = IF t.loc = NoCall THEN loc ELSE t.loc
        /\ net' = IF t.loc = NoCall /\ t.next # "blocked" THEN net ELSE [net EXCEPT !.http = @ + 1]
        /\ pc' = CASE t.next = "continue" -> "recv"
                   [] t.next = "blocked" -> "blocked"
                   [] OTHER -> "done"
        /\ ret' = CASE t.next = "break" -> Return(NoBridgeID, ErrNotFound)
                    [] t.next = "return" -> Return(t.loc.bid, t.loc.err)
                    [] OTHER -> ret
    /\ reads' = reads + 1
    /\ op' = "turn"
    /\ UNCHANGED <<local, sent>>
    /\ UNCHANGED <<file, env, bridge, err, tried, res, remoteResp, pairResp, pairErr,
                   cached, saved, arrived, arg, saver, wrote>>

LocalNext ==
    \/ LocalOpen
    \/ LocalTurn

SpecLocal == LocalInit /\ [][LocalNext]_vars

(***************************************************************************)
(* The devicetype that pairAs sends, on its own.  Here a Go string is the  *)
(* sequence of its bytes: len and slicing count bytes.  The character      *)
(* U+00E9 is the two bytes LeadByte, ContByte.                             *)
(***************************************************************************)
maxAppNameLength == 20
maxDeviceNameLength == 19

\* longest run of "a" that a label starts with
MaxPad == 21

LeadByte == "xC3"
ContByte == "xA9"
EAcute == "u00E9"

RECURSIVE Repeat(_, _)
Repeat(c, n) == IF n = 0 THEN <<>> ELSE <<c>> \o Repeat(c, n - 1)

\* Labels: a run of "a", then nothing, the character U+00E9, or U+00E9 and "b".
Labels ==
    {Repeat("a", n) \o tail : n \in 0..MaxPad,
                             tail \in {<<>>, <<LeadByte, ContByte>>, <<LeadByte, ContByte, "b">>}}

GOOS == {<<"l", "i", "n", "u", "x">>, <<"d", "a", "r", "w", "i", "n">>}

\* s[:n] when len(s) > n, else s
Truncate(s, n) == IF Len(s) > n THEN SubSeq(s, 1, n) ELSE s

\* The devicetype member of the body that pairAs hands to call.
devicetype(appName, goos, host) ==
    Truncate(appName, maxAppNameLength) \o <<"#">>
    \o Truncate(goos \o <<"-">> \o host, maxDeviceNameLength)

\* The characters of a string as json.Marshal writes them and its reader
\* finds them: a byte that is no valid UTF-8 becomes U+FFFD.
RECURSIVE Runes(_)
Runes(s) ==
    IF s = <<>> THEN <<>>
    ELSE IF Len(s) >= 2 /\ s[1] = LeadByte /\ s[2] = ContByte
        THEN <<EAcute>> \o Runes(SubSeq(s, 3, Len(s)))
    ELSE IF s[1] \in {LeadByte, ContByte, InvalidByte}
        THEN <<Replacement>> \o Runes(Tail(s))
    ELSE <<s[1]>> \o Runes(Tail(s))

LabelInit ==
    /\ arg \in [kind : {"pairAs"}, appName : Labels, goos : GOOS, host : Labels]
    /\ ret = [kind |-> "none"]
    /\ conn = <<>>
    /\ rbuf = <<>>
    /\ arrived = <<>>
    /\ loc = NoCall
    /\ saver = <<>>
    /\ wrote = <<>>
    /\ local = [kind |-> "nil"]
    /\ sent = <<>>
    /\ file = NoFile
    /\ env = [home |-> TRUE, rd |-> TRUE, wr |-> "ok"]
    /\ bridge = NewBridge(bridgeID(<<"a">>, <<"h", Slash>>), <<>>)
    /\ err = Nil
    /\ pc = "idle"
    /\ tried = <<>>
    /\ res = NoRes
    /\ net = NoNet
    /\ reads = 0
    /\ remoteResp = NoResp
    /\ pairResp = NoResp
    /\ pairErr = Nil
    /\ cached = Nil
    /\ saved = Nil
    /\ op = "none"

\* pairAs up to the request: the devicetype as the bridge reads it.
PairRequest ==
    /\ op = "none"
    /\ ret' = [kind |-> "request",
               devicetype |-> Runes(devicetype(arg.appName, arg.goos, arg.host))]
    /\ op' = "pairAs"
    /\ UNCHANGED <<local, sent>>
    /\ UNCHANGED <<file, env, bridge, err, pc, tried, res, net, reads, remoteResp, pairResp,
                   pairErr, cached, saved, conn, rbuf, arrived, loc, arg, saver, wrote>>

LabelNext == PairRequest

SpecLabel == LabelInit /\ [][LabelNext]_vars

(***************************************************************************)
(* Bridge.addr and Bridge.call on their own: TestAddr and TestCall with    *)
(* the bridge, the tokens and the response drawn from bounded sets, and    *)
(* pairAs as the caller of call.                                           *)
(***************************************************************************)
API == <<"a", "p", "i">>

\* addr with the tokens written before the username.
addr_UsernameLast(b, tokens) ==
    LET RECURSIVE Write(_, _)
        Write(buf, ts) ==
            IF ts = <<>> THEN buf ELSE Write(buf \o <<Slash>> \o Head(ts), Tail(ts))
    IN IF Len(tokens) = 0 THEN b.IP \o API
       ELSE Write(b.IP \o API, tokens) \o <<Slash>> \o b.username

\* Bridge.addr: the buffer after the writes of the loop.
addr(b, tokens) ==
    LET RECURSIVE Write(_, _)
        Write(buf, ts) ==
            IF ts = <<>> THEN buf ELSE Write(buf \o <<Slash>> \o Head(ts), Tail(ts))
    IN IF Len(tokens) = 0 THEN b.IP \o API
       ELSE Write(b.IP \o API \o <<Slash>> \o b.username, tokens)

Tokens == {<<"l", "i", "g", "h", "t", "s">>, <<"1">>, <<"s", "t", "a", "t", "e">>}

\* The bridges of the tests: paired or not, the address with its slash or
\* without.
CallBridges ==
    {NewBridge(bridgeID(<<"a">>, ip), u) : ip \in {<<"h">>, <<"h", Slash>>},
                                           u \in {<<>>, <<"u", "s", "e", "r">>}}

\* Elements of the array that answers a call: no error and no username, a
\* username, an error object whose type is 0, and two errors.
CallElements ==
    {SuccessElement(<<>>), SuccessElement(<<"u">>),
     ErrorElement(0, <<Slash>>, <<"no error">>),
     LinkButton,
     ErrorElement(7, <<Slash, "l">>, <<"invalid value">>)}

CallResponses ==
    {[kind |-> "transport error"], [kind |-> "not json"], [kind |-> "object"]}
    \cup [kind : {"array"}, arr : SeqsUpTo(CallElements, MaxElements)]

CallInit ==
    /\ bridge \in CallBridges
    /\ arg \in [kind : {"call"}, tokens : SeqsUpTo(Tokens, MaxTokens), resp : CallResponses]
    /\ ret = [kind |-> "none"]
    /\ conn = <<>>
    /\ rbuf = <<>>
    /\ arrived = <<>>
    /\ loc = NoCall
    /\ saver = <<>>
    /\ wrote = <<>>
    /\ local = [kind |-> "nil"]
    /\ sent = <<>>
    /\ file = NoFile
    /\ env = [home |-> TRUE, rd |-> TRUE, wr |-> "ok"]
    /\ err = Nil
    /\ pc = "idle"
    /\ tried = <<>>
    /\ res = NoRes
    /\ net = NoNet
    /\ reads = 0
    /\ remoteResp = NoResp
    /\ pairResp = NoResp
    /\ pairErr = Nil
    /\ cached = Nil
    /\ saved = Nil
    /\ op = "none"

\* b.call(method, body, tokens...): the URL of the request, and the body and
\* the error returned.
Call ==
    /\ op = "none"
    /\ ret' = [kind |-> "call", url |-> addr(bridge, arg.tokens),
               body |-> call(arg.resp).body, err |-> call(arg.resp).err]
    /\ op' = "call"
    /\ UNCHANGED <<local, sent>>
    /\ UNCHANGED <<file, env, bridge, err, pc, tried, res, net, reads, remoteResp, pairResp,
                   pairErr, cached, saved, conn, rbuf, arrived, loc, arg, saver, wrote>>

\* pairAs, which calls b.call without tokens, on the same response.
CallFromPairAs ==
    /\ op = "none"
    /\ arg.tokens = <<>>
    /\ LET o == pairAs(bridge, TRUE, arg.resp, env, file) IN
        /\ bridge' = o.b
        /\ file' = o.f
        /\ pairErr' = o.err
    /\ pairResp' = arg.resp
    /\ op' = "pairAs"
    /\ UNCHANGED <<local, sent>>
    /\ UNCHANGED <<env, err, pc, tried, res, net, reads, remoteResp, cached, saved,
                   conn, rbuf, arrived, loc, arg, saver, wrote, ret>>

CallNext ==
    \/ Call
    \/ CallFromPairAs

SpecCall == CallInit /\ [][CallNext]_vars

(***************************************************************************)
(* Two processes that have paired and save at the same time.               *)
(* ioutil.WriteFile is two steps on the file: it opens the file, which     *)
(* creates it or truncates it, and it writes the data at the start of the  *)
(* file.  Each process has its own open file and its own offset.           *)
(***************************************************************************)
Savers == {1, 2}

\* The usernames the bridge issued to the two processes.
IssuedUsernames == SeqsUpTo({"u", "v"}, MaxStrLen) \ {<<>>}

\* os.OpenFile(name, O_WRONLY|O_CREATE|O_TRUNC, perm)
OpenTrunc(f) == FileOf(<<>>)

\* f.Write(data) on a file opened at offset 0: the bytes of data replace the
\* first bytes of the file, and the bytes after them stay.
WriteAtStart(f, data) ==
    FileOf(data \o SubSeq(f.data, Len(data) + 1, Len(f.data)))

\* The bridge as process p has it after pairing.
SaverBridge(p) == NewBridge(bridgeID(<<"a">>, <<"h", Slash>>), arg.username[p])

RaceInit ==
    /\ arg \in [kind : {"toCache"}, username : [Savers -> IssuedUsernames]]
    /\ saver = [p \in Savers |-> "toCache"]
    /\ wrote = <<>>
    /\ local = [kind |-> "nil"]
    /\ sent = <<>>
    /\ ret = [kind |-> "none"]
    /\ conn = <<>>
    /\ rbuf = <<>>
    /\ arrived = <<>>
    /\ loc = NoCall
    /\ file \in {NoFile, FileOf(Marshal([ID |-> <<"a">>, IP |-> <<"h", Slash>>,
                                         Username |-> <<"u", "u", "u", "u">>]))}
    /\ env = [home |-> TRUE, rd |-> TRUE, wr |-> "ok"]
    /\ bridge = Nil
    /\ err = Nil
    /\ pc = "idle"
    /\ tried = <<>>
    /\ res = NoRes
    /\ net = NoNet
    /\ reads = 0
    /\ remoteResp = NoResp
    /\ pairResp = NoResp
    /\ pairErr = Nil
    /\ cached = Nil
    /\ saved = Nil
    /\ op = "none"

\* toCache of process p up to the open of the file inside ioutil.WriteFile.
SaveOpen(p) ==
    /\ saver[p] = "toCache"
    /\ file' = OpenTrunc(file)
    /\ saver' = [saver EXCEPT ![p] = "opened"]
    /\ op' = "open"
    /\ UNCHANGED <<local, sent>>
    /\ UNCHANGED <<env, bridge, err, pc, tried, res, net, reads, remoteResp, pairResp,
                   pairErr, cached, saved, conn, rbuf, arrived, loc, arg, wrote, ret>>

\* The write and the close inside ioutil.WriteFile, and the return of toCache.
SaveWrite(p) ==
    /\ saver[p] = "opened"
    /\ file' = WriteAtStart(file, Marshal(cachedBridge(SaverBridge(p))))
    /\ saver' = [saver EXCEPT ![p] = "returned"]
    /\ wrote' = Append(wrote, p)
    /\ op' = "write"
    /\ UNCHANGED <<local, sent>>
    /\ UNCHANGED <<env, bridge, err, pc, tried, res, net, reads, remoteResp, pairResp,
                   pairErr, cached, saved, conn, rbuf, arrived, loc, arg, ret>>

\* A later run of the program loads the cache.
LoadAfterSaves ==
    /\ \A p \in Savers : saver[p] = "returned"
    /\ op # "fromCache"
    /\ cached' = fromCache(env, file)
    /\ op' = "fromCache"
    /\ UNCHANGED <<local, sent>>
    /\ UNCHANGED <<file, env, bridge, err, pc, tried, res, net, reads, remoteResp, pairResp,
                   pairErr, saved, conn, rbuf, arrived, loc, arg, saver, wrote, ret>>

RaceNext ==
    \/ \E p \in Savers : SaveOpen(p)
    \/ \E p \in Savers : SaveWrite(p)
    \/ LoadAfterSaves

SpecRace == RaceInit /\ [][RaceNext]_vars

(***************************************************************************)
(* The lights and groups services (lights.go, groups.go).  The caller      *)
(* holds a bridge; every operation sends one or two requests to it and the *)
(* bridge's answers are the inputs.  A run is one operation of a service,  *)
(* and then, on the light or group that a lookup returned, any number of   *)
(* operations of that light or group.                                      *)
(***************************************************************************)

\* The largest number of lights, or groups, that the bridge reports.
MaxLights == 2

ErrNotExist == Error("light does not exist")

Services == {"lights", "groups"}

\* The keys of the map that the bridge reports.
LightIDs == {<<"1", "2", "3", "4">>[i] : i \in 1..MaxLights}

LightNames == {"l1name", "l2name"}

\* A light or group as the bridge's JSON describes it: its name and the "on"
\* member of its state (of its action, for a group).
WireLights == [name : LightNames, on : BOOLEAN]

LightMaps == UNION {[ids -> WireLights] : ids \in SUBSET LightIDs}

\* A *Light (kind "lights") or *Group (kind "groups"): On is State.On of a
\* light and Action.On of a group.
Light(svc, id, w, b) == [kind |-> svc, ID |-> id, Name |-> w.name, On |-> w.on, bridge |-> b]

NilLight == [kind |-> "nil"]

NoLights == [id \in {} |-> NilLight]

Unauthorized == ErrorElement(1, <<Slash>>, <<"unauthorized user">>)

\* What a request that is not answered with a JSON object yields.
FailedResponses ==
    {[kind |-> "transport error"], [kind |-> "not json"],
     [kind |-> "array", arr |-> <<Unauthorized>>]}

SuccessArray == [kind |-> "array", arr |-> <<SuccessElement(<<>>)>>]

\* The answers to GET lights and GET groups.
ListResponses ==
    FailedResponses \cup {SuccessArray} \cup [kind : {"object"}, map : LightMaps]

\* The bridges that the services are created from.
LightBridges == {NewBridge(bridgeID(<<i>>, <<"h">>), <<"u">>) : i \in {"a", "b"}}

\* The orders in which a range statement can visit the keys of a map.
Orders(ids) ==
    {o \in [1..Cardinality(ids) -> ids] : \A i, j \in DOMAIN o : o[i] = o[j] => i = j}

\* idMap of LightsService and of GroupsService on the answer r to the GET:
\* the decoded map, every entry with its key as ID and linked to the bridge.
idMap(svc, b, r) ==
    LET c == call(r) IN
        IF c.err # Nil THEN [all |-> NoLights, err |-> c.err]
        ELSE IF c.body.kind # "object" THEN [all |-> NoLights, err |-> Error("type")]
        ELSE [all |-> [id \in DOMAIN c.body.map |-> Light(svc, id, c.body.map[id], b)],
              err |-> Nil]

List_SkipsLast(m, o) ==
    IF m.err # Nil THEN [list |-> <<>>, err |-> m.err]
    ELSE [list |-> [i \in 1..(Len(o) - (IF Len(o) > 1 THEN 1 ELSE 0)) |-> m.all[o[i]]],
          err |-> Nil]

\* List on the result m of idMap, the range visiting the keys in the order o.
List(m, o) ==
    IF m.err # Nil THEN [list |-> <<>>, err |-> m.err]
    ELSE [list |-> [i \in 1..Len(o) |-> m.all[o[i]]], err |-> Nil]

\* ForEach: the lights that fn was called with, in order, and the error.
ForEach(m, o) ==
    IF m.err # Nil THEN [calls |-> <<>>, err |-> m.err]
    ELSE [calls |-> [i \in 1..Len(o) |-> m.all[o[i]]], err |-> Nil]

GetByID_ErrorShown(m, id) ==
    IF m.err # Nil THEN [v |-> NilLight, err |-> m.err]
    ELSE IF id \notin DOMAIN m.all THEN [v |-> NilLight, err |-> ErrNotExist]
    ELSE [v |-> m.all[id], err |-> Nil]

GetByID(m, id) ==
    IF m.err # Nil THEN [v |-> NilLight, err |-> ErrNotExist]
    ELSE IF id \notin DOMAIN m.all THEN [v |-> NilLight, err |-> ErrNotExist]
    ELSE [v |-> m.all[id], err |-> Nil]

Get_FirstVisited(m, o, name) ==
    IF m.err # Nil THEN [v |-> NilLight, err |-> m.err]
    ELSE IF o = <<>> THEN [v |-> NilLight, err |-> ErrNotExist]
    ELSE [v |-> m.all[o[1]], err |-> Nil]

\* Get: the first entry of that name that the range visits.
Get(m, o, name) ==
    LET RECURSIVE Loop(_)
        Loop(i) ==
            IF i > Len(o) THEN [v |-> NilLight, err |-> ErrNotExist]
            ELSE IF m.all[o[i]].Name = name THEN [v |-> m.all[o[i]], err |-> Nil]
            ELSE Loop(i + 1)
    IN IF m.err # Nil THEN [v |-> NilLight, err |-> m.err] ELSE Loop(1)

LightsInit ==
    /\ bridge \in LightBridges
    /\ arg = [kind |-> "none"]
    /\ ret = [kind |-> "none"]
    /\ local = NilLight
    /\ sent = <<>>
    /\ conn = <<>>
    /\ rbuf = <<>>
    /\ arrived = <<>>
    /\ loc = NoCall
    /\ saver = <<>>
    /\ wrote = <<>>
    /\ file = NoFile
    /\ env = [home |-> TRUE, rd |-> TRUE, wr |-> "ok"]
    /\ err = Nil
    /\ pc = "idle"
    /\ tried = <<>>
    /\ res = NoRes
    /\ net = NoNet
    /\ reads = 0
    /\ remoteResp = NoResp
    /\ pairResp = NoResp
    /\ pairErr = Nil
    /\ cached = Nil
    /\ saved = Nil
    /\ op = "none"

\* What no operation of the services touches.
outside ==
    <<file, env, bridge, err, pc, tried, res, net, reads, remoteResp, pairResp, pairErr,
      cached, saved, conn, rbuf, arrived, loc, saver, wrote>>

\* b.Lights().List() and b.Groups().List().
ListStep ==
    /\ op = "none"
    /\ \E svc \in Services, r \in ListResponses :
        LET m == idMap(svc, bridge, r) IN
        \E o \in Orders(DOMAIN m.all) :
            /\ arg' = [kind |-> "List", svc |-> svc, resp |-> r]
            /\ ret' = [kind |-> "List", list |-> List(m, o).list, err |-> List(m, o).err]
            /\ op' = "List"
            /\ UNCHANGED <<local, sent>>
            /\ UNCHANGED outside

\* b.Lights().ForEach(fn), fn recording the light it is given.
ForEachStep ==
    /\ op = "none"
    /\ \E r \in ListResponses :
        LET m == idMap("lights", bridge, r) IN
        \E o \in Orders(DOMAIN m.all) :
            /\ arg' = [kind |-> "ForEach", svc |-> "lights", resp |-> r]
            /\ ret' = [kind |-> "ForEach", calls |-> ForEach(m, o).calls,
                       err |-> ForEach(m, o).err]
            /\ op' = "ForEach"
            /\ UNCHANGED <<local, sent>>
            /\ UNCHANGED outside

\* l, err := b.Lights().Get(name), and the same of b.Groups(), for a name
\* that the bridge may report or one that it does not.
GetStep ==
    /\ op = "none"
    /\ \E svc \in Services, r \in ListResponses, name \in LightNames \cup {"nosuchname"} :
        LET m == idMap(svc, bridge, r) IN
        \E o \in Orders(DOMAIN m.all) :
            /\ arg' = [kind |-> "Get", svc |-> svc, resp |-> r, name |-> name]
            /\ ret' = [kind |-> "Get", v |-> Get(m, o, name).v, err |-> Get(m, o, name).err]
            /\ local' = Get(m, o, name).v
            /\ op' = "Get"
            /\ sent' = <<>>
            /\ UNCHANGED outside

\* l, err := b.Lights().GetByID(id), and the same of b.Groups(), for an id
\* that the bridge may report or one that it does not.
GetByIDStep ==
    /\ op = "none"
    /\ \E svc \in Services, r \in ListResponses, id \in LightIDs \cup {"0"} :
        LET m == idMap(svc, bridge, r) IN
            /\ arg' = [kind |-> "GetByID", svc |-> svc, resp |-> r, id |-> id]
            /\ ret' = [kind |-> "GetByID", v |-> GetByID(m, id).v, err |-> GetByID(m, id).err]
            /\ local' = GetByID(m, id).v
            /\ op' = "GetByID"
            /\ sent' = <<>>
            /\ UNCHANGED outside

\* A request as the bridge receives it.
Request(method, path, body) == [method |-> method, path |-> path, body |-> body]

\* The nil body of a GET.
NoBody == [kind |-> "nil"]

\* A JSON object as a body: its members.
Body(members) == [kind |-> "json", members |-> members]

\* The State values that callers pass to Set, of which the model keeps the
\* field On.
States == [On : BOOLEAN]

\* json.Marshal of a *State: On is tagged "on,omitempty", and encoding/json
\* omits a false boolean so tagged.
MarshalState(s) == Body(IF s.On THEN {[key |-> "on", value |-> "true"]} ELSE {})

\* json.Marshal of map[string]bool{"on": false}.
OffBody == Body({[key |-> "on", value |-> "false"]})

\* json.Marshal of map[string]string{"name": name}.
NameBody(name) == Body({[key |-> "name", value |-> name]})

\* The answers to a PUT.
PutResponses == FailedResponses \cup {SuccessArray}

\* The answers to GET lights/<id> and GET groups/<id>: no object, or an
\* object with the members named in has.
GetResponses ==
    FailedResponses \cup {SuccessArray}
        \cup [kind : {"object"}, has : SUBSET {"name", "on"}, light : WireLights]

\* json.Unmarshal(r, l): the members that the object has replace the fields
\* of l, the other fields keep their values.
UnmarshalInto(body, l) ==
    [l EXCEPT !.Name = IF "name" \in body.has THEN body.light.name ELSE @,
              !.On = IF "on" \in body.has THEN body.light.on ELSE @]

\* "state" of a light, "action" of a group.
StateToken(l) == IF l.kind = "lights" THEN "state" ELSE "action"

Off_Always(l, r) ==
    [l |-> [l EXCEPT !.On = FALSE], err |-> call(r).err,
     sent |-> <<Request("PUT", <<"lights", l.ID, "state">>, OffBody)>>]

\* Light.Off, the PUT answered with r: the light afterwards, the error
\* returned and the requests sent.
Off(l, r) ==
    [l |-> IF call(r).err = Nil THEN [l EXCEPT !.On = FALSE] ELSE l,
     err |-> call(r).err,
     sent |-> <<Request("PUT", <<"lights", l.ID, "state">>, OffBody)>>]

\* Light.Rename.
Rename(l, name, r) ==
    [l |-> IF call(r).err = Nil THEN [l EXCEPT !.Name = name] ELSE l,
     err |-> call(r).err,
     sent |-> <<Request("PUT", <<"lights", l.ID>>, NameBody(name))>>]

Set_ReadsBackAlways(l, s, rput, rget) ==
    LET put == Request("PUT", <<l.kind, l.ID, StateToken(l)>>, MarshalState(s))
        get == Request("GET", <<l.kind, l.ID>>, NoBody)
    IN  IF call(rget).err # Nil THEN [l |-> l, err |-> call(rget).err, sent |-> <<put, get>>]
        ELSE IF call(rget).body.kind # "object"
            THEN [l |-> l, err |-> Error("type"), sent |-> <<put, get>>]
        ELSE [l |-> UnmarshalInto(call(rget).body, l), err |-> call(rput).err,
              sent |-> <<put, get>>]

\* Light.Set and Group.Set, the PUT answered with rput and the GET with rget.
Set(l, s, rput, rget) ==
    LET put == Request("PUT", <<l.kind, l.ID, StateToken(l)>>, MarshalState(s))
        get == Request("GET", <<l.kind, l.ID>>, NoBody)
    IN  IF call(rput).err # Nil THEN [l |-> l, err |-> call(rput).err, sent |-> <<put>>]
        ELSE IF call(rget).err # Nil
            THEN [l |-> l, err |-> call(rget).err, sent |-> <<put, get>>]
        ELSE IF call(rget).body.kind # "object"
            THEN [l |-> l, err |-> Error("type"), sent |-> <<put, get>>]
        ELSE [l |-> UnmarshalInto(call(rget).body, l), err |-> Nil, sent |-> <<put, get>>]

\* Light.On and Group.On.
On(l, rput, rget) == Set(l, [On |-> TRUE], rput, rget)

\* Light.Toggle.
Toggle(l, rput, rget) == IF l.On THEN Off(l, rput) ELSE On(l, rput, rget)

\* Group.Off.
GroupOff(g, rput, rget) == Set(g, [On |-> FALSE], rput, rget)

\* Group.Toggle.
GroupToggle(g, rput, rget) == Set(g, [On |-> ~g.On], rput, rget)

\* What the bridge answers to the call of one light in a bulk operation:
\* the PUT fails, the PUT succeeds and the GET fails, or both succeed.
BulkAnswers ==
    {[put |-> [kind |-> "transport error"], get |-> [kind |-> "transport error"]],
     [put |-> SuccessArray, get |-> [kind |-> "array", arr |-> <<Unauthorized>>]],
     [put |-> SuccessArray,
      get |-> [kind |-> "object", has |-> {"on"}, light |-> [name |-> "l1name", on |-> TRUE]]]}

Bulk_FirstErrorReturned(fn, m, o, answers) ==
    LET outcomes == [i \in 1..Len(o) |->
                        IF fn = "On" THEN On(m.all[o[i]], answers[o[i]].put, answers[o[i]].get)
                        ELSE IF fn = "Off" THEN Off(m.all[o[i]], answers[o[i]].put)
                        ELSE Toggle(m.all[o[i]], answers[o[i]].put, answers[o[i]].get)]
    IN  IF m.err # Nil THEN [outcomes |-> <<>>, err |-> m.err]
        ELSE IF o # <<>> /\ outcomes[1].err # Nil
            THEN [outcomes |-> <<outcomes[1]>>, err |-> outcomes[1].err]
        ELSE [outcomes |-> outcomes, err |-> Nil]

\* LightsService.On, Off and Toggle (fn names which): ForEach with a function
\* that calls the light's method and drops what it returns.
Bulk(fn, m, o, answers) ==
    LET each == ForEach(m, o)
        do(l) == IF fn = "On" THEN On(l, answers[l.ID].put, answers[l.ID].get)
                 ELSE IF fn = "Off" THEN Off(l, answers[l.ID].put)
                 ELSE Toggle(l, answers[l.ID].put, answers[l.ID].get)
    IN  [outcomes |-> [i \in 1..Len(each.calls) |-> do(each.calls[i])], err |-> each.err]

\* The requests of the outcomes, in order.
RECURSIVE Requests(_)
Requests(outcomes) ==
    IF Len(outcomes) = 0 THEN <<>>
    ELSE outcomes[1].sent \o Requests([i \in 1..(Len(outcomes) - 1) |-> outcomes[i + 1]])

\* b.Lights().On(), Off() and Toggle().
BulkStep ==
    /\ op = "none"
    /\ \E fn \in {"On", "Off", "Toggle"}, r \in ListResponses :
        LET m == idMap("lights", bridge, r) IN
        \E o \in Orders(DOMAIN m.all), answers \in [DOMAIN m.all -> BulkAnswers] :
            /\ arg' = [kind |-> "Bulk", fn |-> fn, svc |-> "lights", resp |-> r,
                       answers |-> answers]
            /\ ret' = [kind |-> "Bulk", outcomes |-> Bulk(fn, m, o, answers).outcomes,
                       err |-> Bulk(fn, m, o, answers).err]
            /\ sent' = Requests(Bulk(fn, m, o, answers).outcomes)
            /\ op' = "Bulk"
            /\ UNCHANGED local
            /\ UNCHANGED outside

\* The caller holds a light.
HoldsLight == local # NilLight /\ local.kind = "lights"

\* The caller holds a group.
HoldsGroup == local # NilLight /\ local.kind = "groups"

\* The answers that an operation with the outcome o consumed: rget only when
\* the GET was sent.
Answered(o, rput, rget) == [put |-> rput, get |-> IF Len(o.sent) > 1 THEN rget ELSE NoResp]

\* What a method of the held light or group leaves behind.
Done(name, o, a) ==
    /\ local' = o.l
    /\ sent' = o.sent
    /\ ret' = [kind |-> name, err |-> o.err]
    /\ arg' = a
    /\ op' = name
    /\ UNCHANGED outside

\* l.Off()
OffStep ==
    /\ HoldsLight
    /\ \E r \in PutResponses :
        Done("Off", Off(local, r), [kind |-> "Off", put |-> r])

\* l.Rename(name)
RenameStep ==
    /\ HoldsLight
    /\ \E r \in PutResponses, name \in LightNames :
        Done("Rename", Rename(local, name, r), [kind |-> "Rename", put |-> r, name |-> name])

\* l.Set(s) and g.Set(s)
SetStep ==
    /\ HoldsLight \/ HoldsGroup
    /\ \E s \in States, rput \in PutResponses, rget \in GetResponses :
        Done("Set", Set(local, s, rput, rget),
             [kind |-> "Set", s |-> s,
              answers |-> Answered(Set(local, s, rput, rget), rput, rget)])

\* l.On() and g.On()
OnStep ==
    /\ HoldsLight \/ HoldsGroup
    /\ \E rput \in PutResponses, rget \in GetResponses :
        Done("On", On(local, rput, rget),
             [kind |-> "On",
              answers |-> Answered(On(local, rput, rget), rput, rget)])

\* l.Toggle()
ToggleStep ==
    /\ HoldsLight
    /\ \E rput \in PutResponses, rget \in GetResponses :
        Done("Toggle", Toggle(local, rput, rget),
             [kind |-> "Toggle",
              answers |-> Answered(Toggle(local, rput, rget), rput, rget)])

\* g.Off()
GroupOffStep ==
    /\ HoldsGroup
    /\ \E rput \in PutResponses, rget \in GetResponses :
        Done("GroupOff", GroupOff(local, rput, rget),
             [kind |-> "GroupOff",
              answers |-> Answered(GroupOff(local, rput, rget), rput, rget)])

\* g.Toggle()
GroupToggleStep ==
    /\ HoldsGroup
    /\ \E rput \in PutResponses, rget \in GetResponses :
        Done("GroupToggle", GroupToggle(local, rput, rget),
             [kind |-> "GroupToggle",
              answers |-> Answered(GroupToggle(local, rput, rget), rput, rget)])

LightsNext ==
    \/ ListStep
    \/ ForEachStep
    \/ GetStep
    \/ GetByIDStep
    \/ BulkStep
    \/ OffStep
    \/ RenameStep
    \/ SetStep
    \/ OnStep
    \/ ToggleStep
    \/ GroupOffStep
    \/ GroupToggleStep

SpecLights == LightsInit /\ [][LightsNext]_vars

(***************************************************************************)
(* Properties.                                                             *)
(***************************************************************************)
\* The cache file holds a record that fromCache can read.
CacheReadable ==
    env.home /\ file.exists /\ env.rd /\ Unmarshal(file.data).ok

RecordInFile ==
    LET u == Unmarshal(file.data).val IN NewBridge(bridgeID(u.ID, u.IP), u.Username)

\* C1: when the cache file holds a readable record as Discover is called,
\* Discover returns that record with a nil error, and the call opens no
\* socket, sends no datagram and makes no HTTP request.
C1_CacheHitNoNetwork ==
    (op = "Discover" /\ CacheReadable) =>
        /\ pc = "done"
        /\ bridge = RecordInFile
        /\ err = Nil
        /\ tried = <<"cache">>
        /\ net = NoNet

C1_Witness ==
    /\ op = "Discover"
    /\ CacheReadable
    /\ pc = "done"
    /\ bridge.ID = <<"a">>
    /\ bridge.IP = <<"h", Slash>>
    /\ IsPaired(bridge)

\* C2: the methods are entered in the order cache, local, remote; local only
\* after the cache missed, remote only after local failed, and none after one
\* that succeeded, where the call is done.
C2_MethodOrder ==
    /\ tried \in {<<>>, <<"cache">>, <<"cache", "local">>, <<"cache", "local", "remote">>}
    /\ Len(tried) >= 2 => res.cache = "fail"
    /\ Len(tried) >= 3 => res.local = "fail"
    /\ res.cache = "ok" => (tried = <<"cache">> /\ pc = "done")
    /\ res.local = "ok" => (tried = <<"cache", "local">> /\ pc = "done")
    /\ res.remote = "ok" => (tried = <<"cache", "local", "remote">> /\ pc = "done")
    /\ pc = "local" => tried = <<"cache">>
    /\ pc = "recv" => tried = <<"cache", "local">>
    /\ pc = "remote" => tried = <<"cache", "local">>

C2_Witness ==
    /\ tried = <<"cache", "local", "remote">>
    /\ res = [cache |-> "fail", local |-> "fail", remote |-> "ok"]
    /\ pc = "done"
    /\ reads = MaxResponses

\* C3: Discover returns an error exactly when the cache lookup missed and
\* local discovery failed and remote discovery failed; the error is then
\* ErrNotFound and the bridge nil; otherwise the bridge is set and the error
\* is nil.
C3_ErrorIffAllFailed ==
    pc \in {"done", "panic"} =>
        /\ (err # Nil) <=>
            (res.cache = "fail" /\ res.local = "fail" /\ res.remote = "fail")
        /\ err # Nil => (err = ErrNotFound /\ bridge = Nil)
        /\ err = Nil => bridge # Nil

\* C3, for the calls that return: the statement holds of every Discover call
\* that does not end in the nil dereference of discoverRemote.
C3_HoldsWhereDiscoverReturns ==
    pc = "done" =>
        /\ (err # Nil) <=>
            (res.cache = "fail" /\ res.local = "fail" /\ res.remote = "fail")
        /\ err # Nil => (err = ErrNotFound /\ bridge = Nil)
        /\ err = Nil => bridge # Nil

\* C4: when the remote lookup fails by a network error or by an empty array,
\* Discover completes and returns ErrNotFound.
C4_RemoteFailureIsNotFound ==
    (op = "discoverRemote"
        /\ (remoteResp.kind = "network error"
            \/ (remoteResp.kind = "json" /\ remoteResp.arr = <<>>))) =>
        /\ pc = "done"
        /\ err = ErrNotFound
        /\ bridge = Nil

\* C4, the empty array alone: that failure is returned as ErrNotFound.
C4_EmptyArrayIsNotFound ==
    (op = "discoverRemote" /\ remoteResp.kind = "json" /\ remoteResp.arr = <<>>) =>
        /\ pc = "done"
        /\ err = ErrNotFound
        /\ bridge = Nil

EndsWithOneSlash(s) ==
    /\ Len(s) >= 1
    /\ s[Len(s)] = Slash
    /\ Len(s) >= 2 => s[Len(s) - 1] # Slash

\* C5: the address of every bridge that local or remote discovery returned
\* ends with exactly one slash.
C5_AddressNormalized ==
    (pc = "done" /\ err = Nil /\ res.cache = "fail") => EndsWithOneSlash(bridge.IP)

\* C5, the sources that already have the expected form: a URLBase with one
\* trailing slash and an internalipaddress with none give such an address.
C5_NormalizedSources ==
    /\ \A d \in Descriptions :
        (d.kind = "xml" /\ tryLocation(d).err = Nil /\ EndsWithOneSlash(d.URL))
            => EndsWithOneSlash(tryLocation(d).bid.IP)
    /\ \A r \in RemoteResponses :
        (r.kind = "json" /\ Len(r.arr) > 0 /\ r.arr[1].IP = <<"i">>)
            => EndsWithOneSlash(discoverRemote(r).bid.IP)

\* C6 as amended: when pairAs succeeds the bridge carries the issued,
\* non-empty username and, where the home directory resolves and the file can
\* be written, the file holds the record {id, address, username}; a later
\* Discover, with that file in place and readable, returns the same bridge,
\* paired, from the cache alone.
C6_PairThenCached ==
    /\ (op = "pairAs" /\ pairErr = Nil) =>
        /\ IsPaired(bridge)
        /\ bridge.username = pairResp.arr[1].username
        /\ (env.home /\ env.wr = "ok") =>
            /\ file.exists
            /\ Unmarshal(file.data).ok
            /\ RecordInFile = bridge
            /\ saved = bridge
    /\ (op = "Discover" /\ saved # Nil /\ env.home /\ env.rd) =>
        /\ pc = "done"
        /\ err = Nil
        /\ bridge = saved
        /\ IsPaired(bridge)
        /\ tried = <<"cache">>
        /\ net = NoNet
        /\ pairResp = NoResp

C6_Witness ==
    /\ op = "Discover"
    /\ saved # Nil
    /\ pc = "done"
    /\ bridge = saved
    /\ bridge.username = <<"v", Quote>>
    /\ bridge.IP = Sanitize(<<"i">>)

\* C6 as stated: whenever pairAs succeeds, the record has been written to the
\* cache file before it returns.
C6_RecordAlwaysWritten ==
    (op = "pairAs" /\ pairErr = Nil) =>
        /\ IsPaired(bridge)
        /\ file.exists
        /\ Unmarshal(file.data).ok
        /\ RecordInFile = bridge

\* The array decodes to no first element with a username.
BadPairArray(r) ==
    r.kind = "array" /\ (Len(r.arr) = 0 \/ r.arr[1].username = <<>>)

\* C7: when the answer to the pairing POST is an empty array, or an array
\* whose first element has no username, pairAs returns an error and leaves
\* the username and the cache file as they were.
C7_PairingFailure ==
    [][(op' = "pairAs" /\ BadPairArray(pairResp')) =>
        /\ pairErr' # Nil
        /\ bridge' = bridge
        /\ file' = file]_vars

C7_Witness ==
    /\ op = "pairAs"
    /\ pairResp.kind = "array"
    /\ Len(pairResp.arr) = 2
    /\ pairResp.arr[1].username = <<>>
    /\ pairResp.arr[2].username # <<>>
    /\ pairErr = Error("bad response")
    /\ ~IsPaired(bridge)
    /\ ~file.exists

ValidUTF8(s) == \A i \in 1..Len(s) : s[i] # InvalidByte

\* C8 as amended: for a bridge whose id, address and username are valid
\* UTF-8, toCache followed by fromCache returns a bridge equal to it in all
\* three fields.
C8_RoundTripValidUTF8 ==
    (op = "fromCache"
        /\ ValidUTF8(bridge.ID) /\ ValidUTF8(bridge.IP) /\ ValidUTF8(bridge.username)) =>
        cached = bridge

C8_Witness ==
    /\ op = "fromCache"
    /\ bridge.ID = <<Backslash, Quote>>
    /\ bridge.IP = <<"a">>
    /\ bridge.username = <<Quote, Backslash>>
    /\ cached = bridge

\* C8 as stated: for any bridge, toCache followed by fromCache returns a
\* bridge equal to it in all three fields.
C8_RoundTripAny ==
    op = "fromCache" => (cached # Nil /\ cached = bridge)

\* fromCache finds no record it can use.
CacheUnusable ==
    \/ ~env.home
    \/ ~file.exists
    \/ ~env.rd
    \/ ~Unmarshal(file.data).ok

\* C9: when the home directory does not resolve, or the file does not exist,
\* cannot be read or is no valid JSON, fromCache returns nil, and Discover
\* goes on to local discovery; what it returns is then what the network
\* methods gave.
C9_LoadFailureIsAMiss ==
    /\ (op = "Discover" /\ CacheUnusable) =>
        /\ cached = Nil
        /\ pc = "local"
        /\ err = Nil
        /\ bridge = Nil
        /\ tried = <<"cache">>
        /\ net = NoNet
    /\ (pc = "done" /\ res.cache = "fail") =>
        /\ err \in {Nil, ErrNotFound}
        /\ (err = Nil) <=> (res.local = "ok" \/ res.remote = "ok")
        /\ err = Nil => ~IsPaired(bridge)

C9_Witness ==
    /\ op = "Discover"
    /\ env.home
    /\ env.rd
    /\ file.exists
    /\ ~Unmarshal(file.data).ok
    /\ pc = "local"

\* The answer issues a username: its first element has one and no element
\* carries an error.
IssuesUsername(r) ==
    /\ r.kind = "array"
    /\ Len(r.arr) > 0
    /\ r.arr[1].username # <<>>
    /\ \A i \in 1..Len(r.arr) : r.arr[i].code = 0

SaveFails == ~env.home \/ env.wr # "ok"

\* C10: when the bridge has issued a username and the home directory does not
\* resolve or the file cannot be written, pairAs still returns nil and the
\* bridge in memory is paired, while the file holds no record written by this
\* call: it is as it was, or it is no record.
C10_SaveFailureSwallowed ==
    [][(op' = "pairAs" /\ IssuesUsername(pairResp') /\ SaveFails) =>
        /\ pairErr' = Nil
        /\ IsPaired(bridge')
        /\ bridge'.username = pairResp'.arr[1].username
        /\ (file' = file \/ ~Unmarshal(file'.data).ok)]_vars

C10_Witness ==
    /\ op = "pairAs"
    /\ IssuesUsername(pairResp)
    /\ SaveFails
    /\ pairErr = Nil
    /\ IsPaired(bridge)
    /\ ~file.exists

\* The description is one that makes a bridge: XML, a URLBase, and the product
\* name in the model description or the model name.
IsBridgeDescription(d) ==
    /\ d.kind = "xml"
    /\ d.URL # <<>>
    /\ Contains(d.Description, ProductName) \/ Contains(d.Name, ProductName)

\* C11: tryLocation accepts a description exactly when it parses as XML, its
\* URLBase is not empty and "Philips hue" occurs in modelDescription or in
\* modelName; it then returns {serialNumber, URLBase} with a nil error, and in
\* every other case (no URLBase, no match, no XML, no response) an error and
\* the empty identity.
C11_TryLocation ==
    loc.kind = "call" =>
        IF IsBridgeDescription(loc.desc)
        THEN loc.bid = bridgeID(loc.desc.ID, loc.desc.URL) /\ loc.err = Nil
        ELSE loc.bid = NoBridgeID /\ loc.err # Nil

\* A description is accepted on its model name alone.
C11_Witness ==
    /\ loc.kind = "call"
    /\ loc.err = Nil
    /\ loc.bid = bridgeID(loc.desc.ID, loc.desc.URL)
    /\ ~Contains(loc.desc.Description, ProductName)

\* The Location headers of a datagram whose description makes a bridge.
GoodLocations(dg) ==
    {i \in 1..Len(dg) : /\ dg[i].kind = "header"
                        /\ dg[i].key = "Location"
                        /\ dg[i].desc # NoAnswer
                        /\ IsBridgeDescription(dg[i].desc)}

Validates(dg) == GoodLocations(dg) # {}

\* The identity that the description of a validating datagram gives.
IdentityOf(dg) ==
    LET i == CHOOSE i \in GoodLocations(dg) : TRUE IN bridgeID(dg[i].desc.ID, dg[i].desc.URL)

\* C12: responses without usable headers, without Location or with a rejected
\* description are skipped; when one of the responses received before the
\* deadline carries a Location whose description validates, discoverLocal
\* returns that bridge, whatever the responses before it were.
C12_GoodResponseFound ==
    (pc = "done" /\ op = "turn" /\ \E i \in 1..Len(arrived) : Validates(arrived[i])) =>
        /\ ret.err = Nil
        /\ \E i \in 1..Len(arrived) : Validates(arrived[i]) /\ ret.bid = IdentityOf(arrived[i])

\* The datagram is a status line and headers that a blank line ends.
WellFormed(dg) ==
    /\ Len(dg) >= 2
    /\ dg[1] = StatusLine
    /\ dg[Len(dg)] = BlankLine
    /\ \A i \in 2..(Len(dg) - 1) : dg[i].kind = "header"

\* Among well-formed responses the search does find the bridge.
C12_FoundAmongWellFormed ==
    (\A i \in 1..Len(arrived) : WellFormed(arrived[i])) => C12_GoodResponseFound

\* The first response, in arrival order, whose description validates.
FirstValid ==
    CHOOSE k \in 1..Len(arrived) :
        Validates(arrived[k]) /\ \A j \in 1..(k - 1) : ~Validates(arrived[j])

\* C13: discoverLocal returns the identity of the first response, in arrival
\* order, whose description validates, and returns it at once: the responses
\* after that one are not read and do not change the result.
C13_FirstValidWins ==
    (pc = "done" /\ op = "turn" /\ ret.err = Nil) =>
        /\ ret.bid = IdentityOf(arrived[FirstValid])
        /\ Len(conn) = Len(arrived) - FirstValid
        /\ rbuf = <<>>

\* Among well-formed responses the first that validates is the one returned.
C13_FirstAmongWellFormed ==
    (\A i \in 1..Len(arrived) : WellFormed(arrived[i])) => C13_FirstValidWins

\* C14: when no candidate validates, discoverLocal reads until the receive
\* deadline and then returns ErrNotFound; whatever was received, it is never
\* left waiting on something that the deadline does not end.
C14_NotFoundAtDeadline ==
    /\ pc # "blocked"
    /\ (pc = "done" /\ op = "turn" /\ ret.err # Nil) =>
            ret.err = ErrNotFound /\ conn = <<>> /\ rbuf = <<>>

\* A turn of the loop that finds the socket drained meets the deadline and
\* returns ErrNotFound.
C14_DrainedSocketIsNotFound ==
    [][(pc = "recv" /\ conn = <<>> /\ rbuf = <<>>) =>
            (pc' = "done" /\ ret' = Return(NoBridgeID, ErrNotFound))]_vars

\* C15: for a non-empty array of {id, internalipaddress} records,
\* discoverRemote returns the id of element 0 and the address "http://" +
\* internalipaddress of element 0 + "/", whatever the elements after it are.
C15_RemoteTakesFirst ==
    (op = "discoverRemote" /\ remoteResp.kind = "json" /\ Len(remoteResp.arr) > 0) =>
        /\ pc = "done"
        /\ err = Nil
        /\ bridge.ID = remoteResp.arr[1].ID
        /\ bridge.IP = <<"h", "t", "t", "p", ":", "/", "/">> \o remoteResp.arr[1].IP \o <<"/">>

\* The lookup answered with two bridges and the first was returned.
C15_Witness ==
    /\ op = "discoverRemote"
    /\ remoteResp.kind = "json"
    /\ Len(remoteResp.arr) = 2
    /\ remoteResp.arr[2].ID # remoteResp.arr[1].ID
    /\ bridge # Nil
    /\ bridge.ID = remoteResp.arr[1].ID

\* The first n characters of a sequence of characters.
FirstChars(cs, n) == IF Len(cs) > n THEN SubSeq(cs, 1, n) ELSE cs

\* C16: the devicetype is "<app>#<device>", <app> the application label cut
\* to its first 20 characters when it is longer and unchanged otherwise,
\* <device> the label "<os>-<hostname>" cut to its first 19 characters when it
\* is longer and unchanged otherwise.
C16_LabelsCutToLength ==
    op = "pairAs" =>
        ret.devicetype =
            FirstChars(Runes(arg.appName), maxAppNameLength) \o <<"#">>
            \o FirstChars(Runes(arg.goos \o <<"-">> \o arg.host), maxDeviceNameLength)

\* The label is made of ASCII characters only.
ASCII(s) == \A i \in 1..Len(s) : s[i] \notin {LeadByte, ContByte, InvalidByte}

\* For labels of ASCII characters, where bytes and characters are the same,
\* the devicetype is made of the labels cut to 20 and to 19 characters.
C16_ASCIILabelsCutToLength ==
    (ASCII(arg.appName) /\ ASCII(arg.host)) => C16_LabelsCutToLength

\* The elements of the answer that carry an error object with a non-zero type.
ErrorElements(r) ==
    IF r.kind = "array" THEN {i \in 1..Len(r.arr) : r.arr[i].code # 0} ELSE {}

\* The error of the first of them, as call reports it.
ReportedError(r) ==
    LET i == CHOOSE i \in ErrorElements(r) : \A j \in ErrorElements(r) : i <= j IN
        [kind |-> "APIError", Code |-> r.arr[i].code, URL |-> r.arr[i].address,
         Msg |-> r.arr[i].description]

\* C17: when an element of the answer carries an error object with a non-zero
\* type, call returns no body and the APIError with that element's type,
\* address and description, and pairAs returns that APIError, not the "bad
\* response" error; of several such elements the first in the array is the
\* one reported.
C17_APIErrorReported ==
    /\ (op = "call" /\ ErrorElements(arg.resp) # {}) =>
            ret.body = NoResp /\ ret.err = ReportedError(arg.resp)
    /\ (op = "pairAs" /\ ErrorElements(arg.resp) # {}) =>
            pairErr = ReportedError(arg.resp)

\* pairAs was answered with two different errors and returned the first.
C17_Witness ==
    /\ op = "pairAs"
    /\ Cardinality(ErrorElements(arg.resp)) = 2
    /\ arg.resp.arr[1] # arg.resp.arr[2]
    /\ pairErr = [kind |-> "APIError", Code |-> arg.resp.arr[1].code,
                  URL |-> arg.resp.arr[1].address, Msg |-> arg.resp.arr[1].description]
    /\ pairErr # Error("bad response")

BothSaved == saver # <<>> /\ \A p \in Savers : saver[p] = "returned"

LastWriter == wrote[Len(wrote)]

\* C18: in every interleaving of two unlocked saves, once both have completed
\* the cache file holds exactly the record of the process that wrote last,
\* and a later load returns that record.
C18_LastWriterWins ==
    BothSaved =>
        /\ file = FileOf(Marshal(cachedBridge(SaverBridge(LastWriter))))
        /\ op = "fromCache" => cached = SaverBridge(LastWriter)

\* When the two records have the same length, the last writer's record is
\* what the file holds.
C18_SameLengthLastWriterWins ==
    Len(arg.username[1]) = Len(arg.username[2]) => C18_LastWriterWins

\* "/" + t1 + "/" + ... + "/" + tn
RECURSIVE SlashBefore(_)
SlashBefore(ts) ==
    IF ts = <<>> THEN <<>> ELSE <<Slash>> \o Head(ts) \o SlashBefore(Tail(ts))

\* The number of slashes in s.
Slashes(s) == Cardinality({i \in 1..Len(s) : s[i] = Slash})

\* C19: for a bridge with address A and username U, addr() is A + "api" and
\* addr(t1, ..., tn), n >= 1, is A + "api/" + U + "/" + t1 + "/" + ... + "/" +
\* tn: the tokens in the order given, one slash between consecutive segments.
C19_ResourceURL ==
    op = "call" =>
        /\ arg.tokens = <<>> => ret.url = bridge.IP \o API
        /\ arg.tokens # <<>> =>
            /\ ret.url = bridge.IP \o API \o <<Slash>> \o bridge.username
                            \o SlashBefore(arg.tokens)
            /\ Slashes(ret.url) = Slashes(bridge.IP) + 1 + Len(arg.tokens)

\* The URL of two different tokens on a paired bridge whose address ends in
\* a slash.
C19_Witness ==
    /\ op = "call"
    /\ bridge.IP = <<"h", Slash>>
    /\ bridge.username = <<"u", "s", "e", "r">>
    /\ arg.tokens = <<<<"l", "i", "g", "h", "t", "s">>, <<"1">>>>
    /\ ret.url = <<"h", "/", "a", "p", "i", "/", "u", "s", "e", "r", "/",
                   "l", "i", "g", "h", "t", "s", "/", "1">>

\* C20: call returns the body as it was received, with a nil error, when the
\* body is valid JSON, an object or an array, without an error element of
\* non-zero type; it returns an error and no body when the body is not valid
\* JSON; it never returns a body together with an error.
C20_BodyOrError ==
    op = "call" =>
        /\ (arg.resp.kind \in {"object", "array"} /\ ErrorElements(arg.resp) = {}) =>
                ret.body = arg.resp /\ ret.err = Nil
        /\ arg.resp.kind = "not json" => ret.body = NoResp /\ ret.err # Nil
        /\ ret.body = NoResp \/ ret.err = Nil

\* An array of two elements, one with an error object of type 0, came back
\* as the body.
C20_Witness ==
    /\ op = "call"
    /\ arg.resp.kind = "array"
    /\ Len(arg.resp.arr) = 2
    /\ \E i \in 1..2 : arg.resp.arr[i].description # <<>>
    /\ ret.body = arg.resp
    /\ ret.err = Nil

\* The map of the answer that the last operation of a service was given.
Reported == arg.resp.map

\* C21: given the map of lights (or groups) that the bridge reports,
\* Get(name) returns an entry whose Name is name and GetByID(id) returns the
\* entry stored under the key id, both with the map key as ID and the
\* service's bridge as bridge; when no entry has that name, or no key is that
\* id, the result is ErrNotExist and no entry.
C21_Lookup ==
    /\ (op = "Get" /\ arg.resp.kind = "object") =>
        IF \E id \in DOMAIN Reported : Reported[id].name = arg.name
        THEN /\ ret.err = Nil
             /\ ret.v # NilLight
             /\ ret.v.Name = arg.name
             /\ ret.v.ID \in DOMAIN Reported
             /\ ret.v = Light(arg.svc, ret.v.ID, Reported[ret.v.ID], bridge)
        ELSE ret.err = ErrNotExist /\ ret.v = NilLight
    /\ (op = "GetByID" /\ arg.resp.kind = "object") =>
        IF arg.id \in DOMAIN Reported
        THEN /\ ret.err = Nil
             /\ ret.v = Light(arg.svc, arg.id, Reported[arg.id], bridge)
        ELSE ret.err = ErrNotExist /\ ret.v = NilLight

\* Of two groups with different names, Get returned the one asked for, which
\* is stored under the second key.
C21_Witness ==
    /\ op = "Get"
    /\ arg.svc = "groups"
    /\ arg.resp.kind = "object"
    /\ DOMAIN Reported = {"1", "2"}
    /\ Reported["1"].name = "l1name"
    /\ arg.name = "l2name"
    /\ ret.err = Nil
    /\ ret.v.ID = "2"
    /\ ret.v.Name = "l2name"
    /\ ret.v.bridge = bridge

\* GetByID found no light under an id that the bridge does not report.
C21_MissingID ==
    /\ op = "GetByID"
    /\ arg.resp.kind = "object"
    /\ DOMAIN Reported = {"1", "2"}
    /\ arg.id = "0"
    /\ ret.err = ErrNotExist
    /\ ret.v = NilLight

\* Every key of the reported map is the ID of exactly one element of q, and
\* every element of q is the entry of its ID, linked to the service's bridge.
OncePerKey(q) ==
    /\ Len(q) = Cardinality(DOMAIN Reported)
    /\ \A id \in DOMAIN Reported : Cardinality({i \in 1..Len(q) : q[i].ID = id}) = 1
    /\ \A i \in 1..Len(q) :
        /\ q[i].ID # ""
        /\ q[i].ID \in DOMAIN Reported
        /\ q[i] = Light(arg.svc, q[i].ID, Reported[q[i].ID], bridge)

\* C22: when the bridge reports a map of n lights, List returns exactly n
\* lights and ForEach calls the function exactly n times, once per map key;
\* every light returned or passed has a non-empty ID equal to its key in the
\* map and is linked to the service's bridge; List of groups does the same.
C22_EveryEntryOnce ==
    /\ (op = "List" /\ arg.resp.kind = "object") => ret.err = Nil /\ OncePerKey(ret.list)
    /\ (op = "ForEach" /\ arg.resp.kind = "object") => ret.err = Nil /\ OncePerKey(ret.calls)

\* List returned two lights, the one of the second key first.
C22_Witness ==
    /\ op = "List"
    /\ arg.svc = "lights"
    /\ arg.resp.kind = "object"
    /\ DOMAIN Reported = {"1", "2"}
    /\ Len(ret.list) = 2
    /\ ret.list[1].ID = "2"
    /\ ret.list[2].ID = "1"
    /\ ret.list[1].bridge = bridge

\* ForEach called the function twice.
C22_ForEachTwice ==
    /\ op = "ForEach"
    /\ arg.resp.kind = "object"
    /\ Len(ret.calls) = 2
    /\ ret.calls[1].ID # ret.calls[2].ID

\* C23: Rename(name) sets the light's local Name to name if and only if the
\* bridge call returned no error, and Off sets the local State.On to false if
\* and only if the bridge call returned no error; when the call fails, its
\* error is returned and the local light is left as it was.
C23_LocalOnlyOnSuccess ==
    [][/\ op' = "Rename" =>
            /\ ret'.err = call(arg'.put).err
            /\ ret'.err = Nil => local' = [local EXCEPT !.Name = arg'.name]
            /\ ret'.err # Nil => local' = local
       /\ op' = "Off" =>
            /\ ret'.err = call(arg'.put).err
            /\ ret'.err = Nil => local' = [local EXCEPT !.On = FALSE]
            /\ ret'.err # Nil => local' = local]_vars

\* Off failed with the bridge's error on a light that is on, and the light
\* is still on.
C23_Witness ==
    /\ op = "Off"
    /\ arg.put.kind = "array"
    /\ ret.err = APIError(Unauthorized)
    /\ local.On

\* Rename succeeded and the light has the new name.
C23_Renamed ==
    /\ op = "Rename"
    /\ arg.name = "l2name"
    /\ ret.err = Nil
    /\ local.ID = "1"
    /\ local.Name = "l2name"

\* Rename failed and the light does not have the new name.
C23_NotRenamed ==
    /\ op = "Rename"
    /\ ret.err # Nil
    /\ local.Name # arg.name

\* C24: Set(s) first sends a PUT to lights/<id>/state and, only if that
\* succeeds, then a GET to lights/<id>, and puts the bridge's answer into the
\* local light, so that after a successful Set the local State is what the
\* bridge reported; if the PUT fails, no GET is sent, the error is returned
\* and the local light is unchanged.  Set of a group does the same with
\* groups/<id>/action and groups/<id>.
C24_WriteThenReadBack ==
    [][op' = "Set" =>
        LET put == arg'.answers.put
            get == arg'.answers.get
            sub == IF local.kind = "lights" THEN "state" ELSE "action"
        IN  /\ Len(sent') >= 1
            /\ sent'[1].method = "PUT"
            /\ sent'[1].path = <<local.kind, local.ID, sub>>
            /\ ErrorElements(put) # {} \/ put.kind \in {"transport error", "not json"} =>
                /\ Len(sent') = 1
                /\ ret'.err # Nil
                /\ ret'.err = call(put).err
                /\ local' = local
            /\ ErrorElements(put) = {} /\ put.kind \in {"array", "object"} =>
                /\ Len(sent') = 2
                /\ sent'[2] = Request("GET", <<local.kind, local.ID>>, NoBody)
                /\ ret'.err # Nil => local' = local
            /\ ret'.err = Nil =>
                /\ Len(sent') = 2
                /\ get.kind = "object"
                /\ "on" \in get.has => local'.On = get.light.on
                /\ "on" \notin get.has => local'.On = local.On
                /\ "name" \in get.has => local'.Name = get.light.name
                /\ "name" \notin get.has => local'.Name = local.Name
                /\ local'.ID = local.ID
                /\ local'.bridge = local.bridge
                /\ local'.kind = local.kind]_vars

\* Set with On true succeeded on a light, the bridge reported the light as
\* off, and the local light is off.
C24_Witness ==
    /\ op = "Set"
    /\ local.kind = "lights"
    /\ arg.s.On
    /\ ret.err = Nil
    /\ Len(sent) = 2
    /\ sent[1].path = <<"lights", local.ID, "state">>
    /\ sent[2].method = "GET"
    /\ sent[2].path = <<"lights", local.ID>>
    /\ arg.answers.get.has = {"name", "on"}
    /\ ~arg.answers.get.light.on
    /\ ~local.On

\* The PUT of a Set on a group failed: one request, and the error.
C24_PutFailed ==
    /\ op = "Set"
    /\ local.kind = "groups"
    /\ sent = <<Request("PUT", <<"groups", local.ID, "action">>, MarshalState(arg.s))>>
    /\ ret.err = Error("transport")

\* The value of the member "on" in the bodies of the first request sent.
SentOn(q) == {m.value : m \in {x \in q[1].body.members : x.key = "on"}}

\* C25: the body that Group.Off sends to groups/<id>/action sets "on" to
\* false, and the body that Group.Toggle sends sets "on" to the negation of
\* the group's locally known Action.On; the member is in the body in the true
\* and in the false case.
C25_OffAndToggleBody ==
    [][/\ op' = "GroupOff" =>
            /\ sent'[1].path = <<"groups", local.ID, "action">>
            /\ SentOn(sent') = {"false"}
       /\ op' = "GroupToggle" =>
            /\ sent'[1].path = <<"groups", local.ID, "action">>
            /\ SentOn(sent') = {IF local.On THEN "false" ELSE "true"}]_vars

\* What the two methods send: "on" set to true when the group is to be
\* turned on, and a body without the member "on" when it is to be turned
\* off.
C25_OnOnlyWhenTrue ==
    [][/\ op' = "GroupOff" => SentOn(sent') = {}
       /\ op' = "GroupToggle" => SentOn(sent') = (IF local.On THEN {} ELSE {"true"})]_vars

\* C28: On, Off and Toggle of LightsService return a non-nil error only when
\* listing the lights fails; once the list was obtained they apply the
\* operation to every listed light, keep going after a light whose call
\* fails, and return nil even if the call failed for some or all lights.
C28_BulkSwallowsErrors ==
    op = "Bulk" =>
        /\ ret.err # Nil <=> arg.resp.kind # "object"
        /\ arg.resp.kind # "object" =>
            /\ ret.err = idMap("lights", bridge, arg.resp).err
            /\ sent = <<>>
        /\ arg.resp.kind = "object" =>
            /\ ret.err = Nil
            /\ Len(ret.outcomes) = Cardinality(DOMAIN Reported)
            /\ \A id \in DOMAIN Reported :
                /\ Cardinality({i \in 1..Len(ret.outcomes) : ret.outcomes[i].l.ID = id}) = 1
                /\ \E i \in 1..Len(sent) :
                    /\ sent[i].method = "PUT"
                    /\ sent[i].path = <<"lights", id, "state">>

\* Off was called on two lights, the call failed on both, and nil was
\* returned.
C28_Witness ==
    /\ op = "Bulk"
    /\ arg.fn = "Off"
    /\ Len(ret.outcomes) = 2
    /\ \A i \in 1..2 : ret.outcomes[i].err # Nil
    /\ Len(sent) = 2
    /\ sent[1].path[2] # sent[2].path[2]
    /\ ret.err = Nil

\* Toggle went on to the second light after the call on the first failed.
C28_GoesOn ==
    /\ op = "Bulk"
    /\ arg.fn = "Toggle"
    /\ Len(ret.outcomes) = 2
    /\ ret.outcomes[1].err # Nil
    /\ ret.outcomes[2].err = Nil
    /\ ret.err = Nil

\* C29: when the request for the list of lights (or groups) fails with an
\* error e - a transport error, invalid JSON or an APIError - Get(name)
\* returns e itself, whereas GetByID(id) returns ErrNotExist and hides e.
C29_FailedListing ==
    LET e == idMap(arg.svc, bridge, arg.resp).err IN
        /\ (op = "Get" /\ arg.resp.kind # "object") =>
                e # Nil /\ ret.err = e /\ ret.v = NilLight
        /\ (op = "GetByID" /\ arg.resp.kind # "object") =>
                e # Nil /\ ret.err = ErrNotExist /\ ret.v = NilLight

\* GetByID of a group answered "light does not exist" when the bridge had
\* answered "unauthorized user".
C29_Witness ==
    /\ op = "GetByID"
    /\ arg.svc = "groups"
    /\ call(arg.resp).err = APIError(Unauthorized)
    /\ ret.err = ErrNotExist
    /\ ret.err # call(arg.resp).err

\* Get returned the transport error.
C29_GetShowsError ==
    /\ op = "Get"
    /\ arg.resp.kind = "transport error"
    /\ ret.err = Error("transport")

\* The last Discover missed the cache and found a bridge over the network.
FoundByNetwork ==
    /\ pc = "done"
    /\ res.cache = "fail"
    /\ res.local = "ok" \/ res.remote = "ok"
    /\ bridge # Nil

\* C26: the library creates or modifies the cache file in a successful pairAs
\* and nowhere else, and never deletes it; a Discover that finds a bridge
\* over the network does not cache it, so a Discover repeated without a
\* pairing runs the network discovery again.  Every record that the library
\* has written has a non-empty username, a bridge returned from a cache hit
\* on such a record is paired, and a bridge returned by local or remote
\* discovery is not.
C26_OnlyPairingWrites ==
    /\ [][/\ file' # file => (op' = "pairAs" /\ pairErr' = Nil) \/ op' = "remove"
          /\ (op' # "remove" /\ file.exists) => file'.exists
          /\ (FoundByNetwork /\ op' = "Discover") => pc' = "local" /\ cached' = Nil]_vars
    /\ [](/\ saved # Nil => IsPaired(saved)
          /\ (op = "Discover" /\ saved # Nil /\ cached # Nil) => IsPaired(cached)
          /\ FoundByNetwork => ~IsPaired(bridge))

\* The remote lookup found a bridge, which is not paired, and there is still
\* no cache file.
C26_Witness ==
    /\ FoundByNetwork
    /\ res.remote = "ok"
    /\ ~IsPaired(bridge)
    /\ file = NoFile

\* Discover returned the record that a pairing had written.
C26_HitOnWrittenRecord ==
    /\ op = "Discover"
    /\ saved # Nil
    /\ cached = saved
    /\ IsPaired(cached)

\* The answer to the pairing request issues a username.
Issues(r) == r.kind = "array" /\ ErrorElements(r) = {} /\ ~BadPairArray(r)

\* C27 as amended: pairAs on a bridge that is already paired sends the
\* pairing request as on any other bridge; if it succeeds, the newly issued
\* username replaces the old one in memory and, where the home directory
\* resolves and the file can be written, in the cache file; if it fails, the
\* old username is kept in memory and in the cache.  IsPaired never goes from
\* true to false.
C27_PairingAgain ==
    [][(op' = "pairAs" /\ IsPaired(bridge)) =>
        /\ (pairResp' # NoResp /\ Issues(pairResp')) <=> pairErr' = Nil
        /\ pairErr' = Nil =>
            /\ bridge' = [bridge EXCEPT !.username = pairResp'.arr[1].username]
            /\ (env.home /\ env.wr = "ok") => file' = FileOf(Marshal(cachedBridge(bridge')))
        /\ pairErr' # Nil => bridge' = bridge /\ file' = file
        /\ IsPaired(bridge')]_vars

\* C27 as stated: a pairing that succeeds on a paired bridge replaces the
\* old username in memory and in the cache file.
C27_ReplacedInCacheToo ==
    [][(op' = "pairAs" /\ IsPaired(bridge) /\ pairErr' = Nil) =>
        /\ bridge' = [bridge EXCEPT !.username = pairResp'.arr[1].username]
        /\ file' = FileOf(Marshal(cachedBridge(bridge')))]_vars

\* A pairing on a paired bridge was answered "link button not pressed": the
\* bridge is still paired and the cache holds its record.
C27_Witness ==
    /\ op = "pairAs"
    /\ pairResp.kind = "array"
    /\ pairErr = APIError(LinkButton)
    /\ IsPaired(bridge)
    /\ file = FileOf(Marshal(cachedBridge(bridge)))

\* A pairing issued a username other than the one of the record that the
\* program started with, and the cache holds the new one.
C27_NewUsernameCached ==
    /\ op = "pairAs"
    /\ pairErr = Nil
    /\ bridge.ID = <<"a">>
    /\ bridge.username = <<"v", Quote>>
    /\ file = FileOf(Marshal(cachedBridge(bridge)))

====
